---------------------------- MODULE Spec2Model ----------------------------
(***************************************************************************)
(* Model of firmware/storage.c: the flash-resident storage record, the     *)
(* staged update record, the PIN-failure and U2F counter areas and the     *)
(* volatile session cache.                                                 *)
(*                                                                         *)
(* Builds modelled: CRYPTOMEM = 0 (the on-MCU backend), with and without   *)
(* SUPPORT_LEGACY_VERSION defined (the variable of that name).             *)
(*                                                                         *)
(* Representation of data:                                                 *)
(*   - a flash word used bitwise (magic, PIN-fail words, U2F words, flags) *)
(*     is the set of the positions of its one-bits, a subset of 0..31;     *)
(*   - a uint32_t used arithmetically (version, u2f_counter, sizes) is the *)
(*     pair <<hi, lo>> of its two 16-bit halves, with arithmetic mod 2^32; *)
(*   - a C string is the sequence of its characters before the NUL;        *)
(*   - an erased flash cell reads as all-ones.                             *)
(***************************************************************************)
EXTENDS Integers, Sequences, FiniteSets, TLC

(***************************************************************************)
(* Bounds of the model                                                     *)
(***************************************************************************)
\* number of 32-bit words of the PIN-failure area that the model keeps
\* (the device has FLASH_STORAGE_PINAREA_LEN / 4 = 1024)
PinAreaWords == 2
\* at most this many staging calls (setters) in one run
MaxCalls == 2
\* at most this many calls of storage_nextU2FCounter in one run
MaxU2FCalls == 3
\* at most this many failed PIN attempts on one word where a specification
\* caps them
MaxPinFails == 2
\* at most this many power losses in one run
MaxPowerLoss == 1
\* number of 32-bit words of the U2F counter area that the model keeps
\* (the device has FLASH_STORAGE_U2FAREA_LEN / 4 = 64)
U2fAreaWords == 1

(***************************************************************************)
(* 32-bit words as bit sets                                                *)
(***************************************************************************)
WORD_BITS == 32
BitPos == 0..(WORD_BITS - 1)
AllOnes == BitPos
Zero == {}
\* w << n on a uint32_t
Shl(w, n) == {i + n : i \in w} \cap BitPos
\* ~w on a uint32_t
Not(w) == BitPos \ w
\* a | b, a & b
BitOr(a, b) == a \cup b
BitAnd(a, b) == a \cap b

(***************************************************************************)
(* uint32_t arithmetic on <<hi, lo>> pairs                                 *)
(***************************************************************************)
RECURSIVE Pow2(_)
Pow2(n) == IF n = 0 THEN 1 ELSE 2 * Pow2(n - 1)
\* the weight of the high half
HALF == Pow2(16)
\* the pair of a natural number below 2^31
U32Of(n) == <<n \div HALF, n % HALF>>
U32Max == <<HALF - 1, HALF - 1>>
U32Add(a, b) ==
  LET lo == a[2] + b[2]
      hi == a[1] + b[1] + (lo \div HALF)
  IN  <<hi % HALF, lo % HALF>>
U32Sub(a, b) ==
  LET lo == a[2] - b[2]
      borrow == IF lo < 0 THEN 1 ELSE 0
      hi == a[1] - b[1] - borrow
  IN  <<(hi + HALF) % HALF, (lo + HALF) % HALF>>
U32Lt(a, b) == a[1] < b[1] \/ (a[1] = b[1] /\ a[2] < b[2])
U32Le(a, b) == a = b \/ U32Lt(a, b)
RECURSIVE SumPow2(_, _)
\* the number whose one-bits are the positions in s, each lowered by base
SumPow2(s, base) ==
  IF s = {} THEN 0
  ELSE LET i == CHOOSE x \in s : TRUE
       IN  Pow2(i - base) + SumPow2(s \ {i}, base)
\* the uint32_t value of a bit set
WordToU32(w) == <<SumPow2({i \in w : i >= 16}, 16), SumPow2({i \in w : i < 16}, 0)>>

(***************************************************************************)
(* Strings                                                                 *)
(***************************************************************************)
\* strlcpy(dst, src, size): the first size-1 characters of src
Strlcpy(src, size) == IF Len(src) <= size - 1 THEN src ELSE SubSeq(src, 1, size - 1)


(***************************************************************************)
(* Program constants                                                       *)
(***************************************************************************)
\* storage_magic = 0x726f7473 ('stor')
storage_magic == {0, 1, 4, 5, 6, 10, 12, 13, 14, 16, 17, 18, 19, 21, 22, 25, 28, 29, 30}
\* STORAGE_VERSION = 0x10001
STORAGE_VERSION == <<1, 1>>
\* FLASH_STORAGE_U2FAREA_LEN in bytes (0x100 on the device)
FLASH_STORAGE_U2FAREA_LEN == 4 * U2fAreaWords
U2fAreaBits == 8 * FLASH_STORAGE_U2FAREA_LEN
\* capacities of the string buffers of the Storage structure
MNEMONIC_SIZE == 241
PIN_SIZE == 10
LANGUAGE_SIZE == 17
LABEL_SIZE == 33
HOMESCREEN_SIZE == 1024

(***************************************************************************)
(* The Storage structure                                                   *)
(***************************************************************************)
\* the members of Storage in the order of the structure (the order in which
\* storage_flash_words programs them)
FieldOrder ==
  << "version",
     "has_node", "node",
     "has_mnemonic", "mnemonic",
     "has_passphrase_protection", "passphrase_protection",
     "has_pin_failed_attempts", "pin_failed_attempts",
     "has_pin", "pin",
     "has_language", "language",
     "has_label", "label",
     "has_imported", "imported",
     "has_homescreen", "homescreen",
     "has_u2f_counter", "u2f_counter",
     "has_needs_backup", "needs_backup",
     "has_flags", "flags",
     "has_u2froot", "u2froot",
     "zone_is_initialized" >>
NFields == Len(FieldOrder)
Fields == {FieldOrder[i] : i \in 1..NFields}
FieldIndexOf == [f \in Fields |-> CHOOSE i \in 1..NFields : FieldOrder[i] = f]
FieldIndex(f) == FieldIndexOf[f]

\* the character that an erased byte (0xFF) reads as
ErasedChar == "\\xFF"
\* an erased string buffer: 0xFF bytes, no terminating NUL inside the buffer
ErasedStr(size) == [i \in 1..size |-> ErasedChar]
ZeroNode == <<"zero">>
ErasedNode == <<"erased">>

\* memzero(&storageUpdate, sizeof(storageUpdate)): every member zero
ZeroStorage ==
  [ version |-> U32Of(0),
    has_node |-> FALSE, node |-> ZeroNode,
    has_mnemonic |-> FALSE, mnemonic |-> <<>>,
    has_passphrase_protection |-> FALSE, passphrase_protection |-> FALSE,
    has_pin_failed_attempts |-> FALSE, pin_failed_attempts |-> U32Of(0),
    has_pin |-> FALSE, pin |-> <<>>,
    has_language |-> FALSE, language |-> <<>>,
    has_label |-> FALSE, label |-> <<>>,
    has_imported |-> FALSE, imported |-> FALSE,
    has_homescreen |-> FALSE, homescreen |-> [size |-> U32Of(0), bytes |-> <<"zero">>],
    has_u2f_counter |-> FALSE, u2f_counter |-> U32Of(0),
    has_needs_backup |-> FALSE, needs_backup |-> FALSE,
    has_flags |-> FALSE, flags |-> Zero,
    has_u2froot |-> FALSE, u2froot |-> ZeroNode,
    zone_is_initialized |-> FALSE ]

\* the Storage structure as an erased sector reads: every byte 0xFF
\* (a bool whose byte is 0xFF tests as true)
ErasedStorage ==
  [ version |-> U32Max,
    has_node |-> TRUE, node |-> ErasedNode,
    has_mnemonic |-> TRUE, mnemonic |-> ErasedStr(MNEMONIC_SIZE),
    has_passphrase_protection |-> TRUE, passphrase_protection |-> TRUE,
    has_pin_failed_attempts |-> TRUE, pin_failed_attempts |-> U32Max,
    has_pin |-> TRUE, pin |-> ErasedStr(PIN_SIZE),
    has_language |-> TRUE, language |-> ErasedStr(LANGUAGE_SIZE),
    has_label |-> TRUE, label |-> ErasedStr(LABEL_SIZE),
    has_imported |-> TRUE, imported |-> TRUE,
    has_homescreen |-> TRUE, homescreen |-> [size |-> U32Max, bytes |-> <<"erased">>],
    has_u2f_counter |-> TRUE, u2f_counter |-> U32Max,
    has_needs_backup |-> TRUE, needs_backup |-> TRUE,
    has_flags |-> TRUE, flags |-> AllOnes,
    has_u2froot |-> TRUE, u2froot |-> ErasedNode,
    zone_is_initialized |-> TRUE ]

(***************************************************************************)
(* External collaborators (crypto library, random source)                  *)
(***************************************************************************)
\* mnemonic_to_seed(mnemonic, passphrase, seed): BIP-0039
MnemonicToSeed(mnemonic, passphrase) == <<"seed", mnemonic, passphrase>>
ZeroSeed == <<"zero">>
\* hdnode_from_seed + hdnode_private_ckd(U2F_KEY_PATH) on the seed of the mnemonic
U2FRootOf(mnemonic) == <<"u2froot", MnemonicToSeed(mnemonic, <<>>)>>
\* what random_buffer may put into storage_uuid
Uuids == {"uuid1", "uuid2"}
ZeroUuid == "uuid0"
ErasedUuid == "erased"

(***************************************************************************)
(* Flash                                                                   *)
(***************************************************************************)
\* flash_write32 on NOR flash: programming only clears bits
FlashWrite32(old, new) == BitAnd(old, new)
\* a member of the record image programmed over what the cell holds: a cell of
\* an erased sector takes the value, and programming zero clears any cell
FlashWriteField(f, old, new) ==
  IF old = ErasedStorage[f] THEN new
  ELSE IF new = ZeroStorage[f] THEN new
  ELSE old
\* svc_flash_erase_sector(FLASH_META_SECTOR_FIRST): meta descriptor, magic,
\* uuid, Storage record and the remainder up to the PIN area read all-ones
EraseSectorFirst(fl) ==
  [fl EXCEPT !.meta = "erased", !.magic = AllOnes, !.uuid = ErasedUuid,
             !.rom = ErasedStorage, !.pad = "erased"]
\* svc_flash_erase_sector(FLASH_META_SECTOR_LAST): PIN area, U2F area and the
\* reserved words behind it read all-ones
EraseSectorLast(fl) ==
  [fl EXCEPT !.pinarea = [i \in 1..PinAreaWords |-> AllOnes],
             !.u2farea = [i \in 1..(U2fAreaWords + 1) |-> AllOnes]]


(***************************************************************************)
(* State                                                                   *)
(***************************************************************************)
VARIABLES
  \* build configuration: whether SUPPORT_LEGACY_VERSION is defined
  SUPPORT_LEGACY_VERSION,
  \* the flash: [meta, magic, uuid, rom, pad] are the first meta sector
  \* (storageRom is flash.rom), [pinarea, u2farea] the last one
  flash,
  \* RAM
  storage_uuid,
  storageUpdate,
  storage_u2f_offset,
  \* session cache: [SeedCached, SeedUsesPassphrase, Seed, PinCached,
  \* PassphraseCached, Passphrase] for the session* statics
  session,
  \* "on" while the firmware runs, "off" between a power loss and the next boot
  power,
  \* observation: the last operation and its outcome ("wipe_again" is a
  \* storage_wipe that directly follows a storage_wipe)
  op,
  \* observation: number of staging calls, of storage_nextU2FCounter calls
  nCalls,
  nU2F,
  \* observation: number of power losses
  nLoss,
  \* observation: the value that the last storage_nextU2FCounter returned
  u2fRet,
  \* observation: the last power loss: where it struck ("idle", "commit",
  \* "recycle"), and until the next boot the rom record before the commit, the
  \* record image the commit was writing and the new_pinfails of the recycle
  cut,
  \* observation: number of storage_increasePinFails calls since the PIN area
  \* was last erased with no other write to it (-1: some other write happened)
  pinFreshK,
  \* the error bits of the flash status register that svc_flash_lock returned
  \* to the last operation that locked the flash
  flash_sr,
  \* observation: the arguments and the result of the last call of a function
  \* that returns a value ([fn |-> "none"] before the first one)
  ret,
  \* observation: the calls that the last operation made to the flash driver,
  \* to usbTiny and to the PBKDF2 loop, in order
  calls

vars == << SUPPORT_LEGACY_VERSION, flash, storage_uuid, storageUpdate,
           storage_u2f_offset, session, power, op, nCalls, nU2F, nLoss, u2fRet,
           cut, pinFreshK, flash_sr, ret, calls >>

\* the session statics as the C runtime zeroes them (.bss)
ZeroSession ==
  [ SeedCached |-> FALSE, SeedUsesPassphrase |-> FALSE, Seed |-> ZeroSeed,
    PinCached |-> FALSE, PassphraseCached |-> FALSE, Passphrase |-> <<>> ]

\* session_clear(clear_pin)
SessionClear(s, clear_pin) ==
  [s EXCEPT !.SeedCached = FALSE, !.Seed = ZeroSeed,
            !.PassphraseCached = FALSE, !.Passphrase = <<>>,
            !.PinCached = IF clear_pin THEN FALSE ELSE @]

(***************************************************************************)
(* storage_commit_locked                                                   *)
(***************************************************************************)
\* a merge that writes the staged update alone: no member is carried forward
MergeUpdateNoCarry(upd, rom) == [upd EXCEPT !.version = STORAGE_VERSION]

\* the merge of the staged update with the rom record (update = true)
MergeUpdate(upd, rom) ==
  LET carrySecret == ~upd.has_node /\ ~upd.has_mnemonic
      pinStaged == upd.has_pin
      labelStaged == upd.has_label
      hsStaged == upd.has_homescreen
  IN
  [ upd EXCEPT
      !.version = STORAGE_VERSION,
      !.has_node = IF carrySecret THEN rom.has_node ELSE @,
      !.node = IF carrySecret THEN rom.node ELSE @,
      !.has_mnemonic = IF carrySecret THEN rom.has_mnemonic ELSE @,
      !.mnemonic = IF carrySecret THEN Strlcpy(rom.mnemonic, MNEMONIC_SIZE) ELSE @,
      !.has_u2froot = IF carrySecret THEN rom.has_u2froot
                      ELSE IF upd.has_mnemonic THEN TRUE ELSE @,
      !.u2froot = IF carrySecret THEN rom.u2froot
                  ELSE IF upd.has_mnemonic THEN U2FRootOf(upd.mnemonic) ELSE @,
      !.has_passphrase_protection =
          IF ~upd.has_passphrase_protection THEN rom.has_passphrase_protection ELSE @,
      !.passphrase_protection =
          IF ~upd.has_passphrase_protection THEN rom.passphrase_protection ELSE @,
      !.has_pin = IF ~pinStaged THEN rom.has_pin
                  ELSE IF upd.pin = <<>> THEN FALSE ELSE @,
      !.pin = IF ~pinStaged THEN Strlcpy(rom.pin, PIN_SIZE) ELSE @,
      !.has_language = IF ~upd.has_language THEN rom.has_language ELSE @,
      !.language = IF ~upd.has_language THEN Strlcpy(rom.language, LANGUAGE_SIZE) ELSE @,
      !.has_label = IF ~labelStaged THEN rom.has_label
                    ELSE IF upd.label = <<>> THEN FALSE ELSE @,
      !.label = IF ~labelStaged THEN Strlcpy(rom.label, LABEL_SIZE) ELSE @,
      !.has_imported = IF ~upd.has_imported THEN rom.has_imported ELSE @,
      !.imported = IF ~upd.has_imported THEN rom.imported ELSE @,
      !.has_homescreen = IF ~hsStaged THEN rom.has_homescreen
                         ELSE IF upd.homescreen.size = U32Of(0) THEN FALSE ELSE @,
      !.homescreen = IF ~hsStaged THEN rom.homescreen ELSE @,
      !.has_u2f_counter = IF ~upd.has_u2f_counter THEN rom.has_u2f_counter ELSE @,
      !.u2f_counter = IF ~upd.has_u2f_counter THEN rom.u2f_counter ELSE @,
      !.has_needs_backup = IF ~upd.has_needs_backup THEN rom.has_needs_backup ELSE @,
      !.needs_backup = IF ~upd.has_needs_backup THEN rom.needs_backup ELSE @,
      !.has_flags = IF ~upd.has_flags THEN rom.has_flags ELSE @,
      !.flags = IF ~upd.has_flags THEN rom.flags ELSE @ ]

\* a commit that programs the merged update without stamping the version
CommitImageNoVersion(upd, rom, update) ==
  IF update THEN [MergeUpdate(upd, rom) EXCEPT !.version = upd.version]
  ELSE ZeroStorage

\* the record image that storage_commit_locked(update) programs: the merged
\* update, or nothing (the zero fill covers the record) when update is false
CommitImage(upd, rom, update) ==
  IF update THEN MergeUpdate(upd, rom) ELSE ZeroStorage

\* the session cache after storage_commit_locked(update): the invalidations
\* of its head, and storage_compute_u2froot when a mnemonic is staged
CommitSession(s, upd, update) ==
  LET s1 == IF update /\ upd.has_passphrase_protection
            THEN [s EXCEPT !.SeedCached = FALSE, !.PassphraseCached = FALSE]
            ELSE s
      s2 == IF update /\ upd.has_pin THEN [s1 EXCEPT !.PinCached = FALSE] ELSE s1
  IN  IF update /\ ~(~upd.has_node /\ ~upd.has_mnemonic) /\ upd.has_mnemonic
      THEN SessionClear([s2 EXCEPT !.Seed = MnemonicToSeed(upd.mnemonic, <<>>)], FALSE)
      ELSE s2

\* flash operations of the write protocol of storage_commit_locked: the sector
\* erase, then the meta descriptor, the magic, the uuid, one program per member
\* of the record image, and the zero fill of the remainder
CommitSteps == 1 + 3 + NFields + 1
\* the flash after the first k flash operations of the write protocol
CommitPrefix(fl, uuid, image, k) ==
  IF k = 0 THEN fl
  ELSE LET e == EraseSectorFirst(fl) IN
       [ e EXCEPT
           !.meta = IF k >= 2 THEN fl.meta ELSE @,
           !.magic = IF k >= 3 THEN FlashWrite32(@, storage_magic) ELSE @,
           !.uuid = IF k >= 4 THEN uuid ELSE @,
           !.rom = [f \in Fields |->
                      IF k >= 4 + FieldIndex(f)
                      THEN FlashWriteField(f, e.rom[f], image[f])
                      ELSE e.rom[f]],
           !.pad = IF k >= CommitSteps THEN "zero" ELSE @ ]


(***************************************************************************)
(* Monotonic counters                                                      *)
(***************************************************************************)
\* the words that the scan of storage_getPinFailsOffset walks over: the PIN
\* area and, behind it in the same sector, the U2F area
PinScanWords(fl) == fl.pinarea \o fl.u2farea
\* storage_getPinFailsOffset, as the 1-based index of the word (the address
\* is FLASH_STORAGE_PINAREA + 4 * (index - 1)): the first word that is not zero
storage_getPinFailsOffset(fl) ==
  LET ws == PinScanWords(fl)
      nz == {i \in 1..Len(ws) : ws[i] # Zero}
  IN  IF nz = {} THEN Len(ws) + 1
      ELSE CHOOSE i \in nz : \A j \in nz : i <= j
\* the flash word at a word index of the PIN area scan
PinWordAt(fl, idx) ==
  IF idx <= Len(PinScanWords(fl)) THEN PinScanWords(fl)[idx] ELSE AllOnes
\* storage_getPinWait(flash_pinfails): the inverted word
storage_getPinWait(fl, idx) == Not(PinWordAt(fl, idx))

\* the staged update as storage_area_recycle leaves it before the commit
RecycleUpdate(upd, offset) ==
  [upd EXCEPT !.has_u2f_counter = TRUE,
              !.u2f_counter = U32Add(@, U32Of(offset))]
\* a recycle that leaves the storage marker in place: its first flash
\* operation does nothing
RecyclePrefixKeepMagic(fl, uuid, upd, offset, new_pinfails, k) ==
  LET f2 == IF k >= 2 THEN EraseSectorLast(fl) ELSE fl
      f3 == IF k >= 3 THEN [f2 EXCEPT !.pinarea[1] = FlashWrite32(@, new_pinfails)]
            ELSE f2
      image == CommitImage(RecycleUpdate(upd, offset), fl.rom, TRUE)
  IN  IF k > 3 THEN CommitPrefix(f3, uuid, image, k - 3) ELSE f3

\* flash operations of storage_area_recycle: the magic cleared, the last
\* sector erased, new_pinfails programmed, then the write protocol of the commit
RecycleSteps == 3 + CommitSteps
\* the flash after the first k flash operations of storage_area_recycle
RecyclePrefix(fl, uuid, upd, offset, new_pinfails, k) ==
  LET f1 == IF k >= 1 THEN [fl EXCEPT !.magic = FlashWrite32(@, Zero)] ELSE fl
      f2 == IF k >= 2 THEN EraseSectorLast(f1) ELSE f1
      f3 == IF k >= 3 THEN [f2 EXCEPT !.pinarea[1] = FlashWrite32(@, new_pinfails)]
            ELSE f2
      image == CommitImage(RecycleUpdate(upd, offset), fl.rom, TRUE)
  IN  IF k > 3 THEN CommitPrefix(f3, uuid, image, k - 3) ELSE f3

\* storage_nextU2FCounter: the word of the U2F area that the call programs
\* (flash_u2f_offset, as the index of the word counted from 1)
U2FWordIndex(offset) == (offset \div 32) + 1
\* storage_nextU2FCounter: the value that the call programs (newval)
U2FNewval(offset) == Shl(AllOnes \ {0}, offset % 32)

\* storage_nextU2FCounter up to the recycle: the flash with one more bit of
\* the U2F area cleared
U2FClearBit(fl, offset) ==
  [fl EXCEPT !.u2farea[U2FWordIndex(offset)] = FlashWrite32(@, U2FNewval(offset))]
\* a test that lets the offset pass the end of the area by one
U2FAreaFullLate(offset) == offset > U2fAreaBits
\* whether storage_nextU2FCounter recycles the sector after its increment
U2FAreaFull(offset) == offset >= U2fAreaBits
\* the value storage_nextU2FCounter returns
U2FCounterValue(rom, offset) == U32Add(rom.u2f_counter, U32Of(offset))

\* a test that lets storage_resetPinFails zero the last word of the PIN area
PinAreaExhaustedLate(idx) == idx > PinAreaWords
\* storage_resetPinFails: whether the word after flash_pinfails is outside
\* the PIN area, so that the sector is recycled
PinAreaExhausted(idx) == idx >= PinAreaWords

\* a counter word shifted by two places
IncreasedPinWordTwice(w) == Shl(w, 2)
\* a counter word that loses its top bit instead of its lowest one
IncreasedPinWordTopBit(w) == w \ {WORD_BITS - 1}
\* storage_increasePinFails: the new counter word
IncreasedPinWord(w) == Shl(w, 1)

(***************************************************************************)
(* Calls to the flash driver, usbTiny and PBKDF2                            *)
(***************************************************************************)
\* The calls an operation makes to the flash driver, to usbTiny and to the
\* PBKDF2 loop, in the order of the code: "svc_flash_unlock", "svc_flash_lock",
\* "svc_flash_erase_sector", "flash_write32" (one per flash operation of the
\* write protocol), "usbTiny(1)", "usbTiny(old)" and "pbkdf2".
Repeat(call, n) == [i \in 1..n |-> call]

\* storage_compute_u2froot: mnemonic_to_seed between usbTiny(1) and usbTiny(oldTiny)
storage_compute_u2frootCalls == << "usbTiny(1)", "pbkdf2", "usbTiny(old)" >>

\* storage_commit_locked(update) with upd staged: storage_compute_u2froot when
\* a mnemonic is staged, then the write protocol
storage_commit_lockedCalls(upd, update) ==
  (IF update /\ ~(~upd.has_node /\ ~upd.has_mnemonic) /\ upd.has_mnemonic
   THEN storage_compute_u2frootCalls ELSE << >>)
  \o << "svc_flash_erase_sector" >> \o Repeat("flash_write32", CommitSteps - 1)

\* storage_getSeed when it derives the seed: mnemonic_to_seed between
\* usbTiny(1) and usbTiny(oldTiny)
storage_getSeedCalls == << "usbTiny(1)", "pbkdf2", "usbTiny(old)" >>

\* storage_update
storage_updateCalls(upd) ==
  << "svc_flash_unlock" >> \o storage_commit_lockedCalls(upd, TRUE)
  \o << "svc_flash_lock" >>

\* storage_clearPinArea
storage_clearPinAreaCalls ==
  << "svc_flash_unlock", "svc_flash_erase_sector", "svc_flash_lock" >>

\* storage_wipe: the commit of the empty record, then storage_clearPinArea
storage_wipeCalls ==
  << "svc_flash_unlock" >> \o storage_commit_lockedCalls(ZeroStorage, FALSE)
  \o << "svc_flash_lock" >> \o storage_clearPinAreaCalls

\* storage_area_recycle with upd staged; it runs inside the bracket of its caller
storage_area_recycleCalls(upd) ==
  << "flash_write32", "svc_flash_erase_sector", "flash_write32" >>
  \o storage_commit_lockedCalls(upd, TRUE)

\* a storage_resetPinFails whose recycle closes the bracket before the commit
storage_resetPinFailsCallsEarlyLock(upd, recycle) ==
  IF recycle
  THEN << "svc_flash_unlock", "flash_write32", "svc_flash_erase_sector",
          "flash_write32", "svc_flash_lock" >> \o storage_commit_lockedCalls(upd, TRUE)
  ELSE << "svc_flash_unlock", "flash_write32", "svc_flash_lock" >>

\* storage_resetPinFails, recycle telling whether the PIN area is exhausted
storage_resetPinFailsCalls(upd, recycle) ==
  << "svc_flash_unlock" >>
  \o (IF recycle THEN storage_area_recycleCalls(upd) ELSE << "flash_write32" >>)
  \o << "svc_flash_lock" >>

\* storage_increasePinFails, newctr being the shifted counter word: nothing
\* when it is zero
storage_increasePinFailsCalls(newctr) ==
  IF newctr = Zero THEN << >>
  ELSE << "svc_flash_unlock", "flash_write32", "svc_flash_lock" >>

\* storage_nextU2FCounter, recycle telling whether the U2F area is full
storage_nextU2FCounterCalls(upd, recycle) ==
  << "svc_flash_unlock", "flash_write32" >>
  \o (IF recycle THEN storage_area_recycleCalls(upd) ELSE << >>)
  \o << "svc_flash_lock" >>

(***************************************************************************)
(* storage_from_flash, storage_init, storage_wipe                          *)
(***************************************************************************)
\* number of members of the record that a record of this version holds
\* (old_storage_size, counted in members)
OldStorageFields(version) ==
  IF version = U32Of(0) THEN 0
  ELSE IF U32Le(version, U32Of(2)) THEN FieldIndex("imported")
  ELSE IF U32Le(version, U32Of(5)) THEN FieldIndex("homescreen")
  ELSE IF U32Le(version, U32Of(7)) THEN FieldIndex("u2f_counter")
  ELSE IF U32Le(version, U32Of(8)) THEN FieldIndex("flags")
  ELSE IF U32Le(version, U32Of(9)) THEN FieldIndex("u2froot")
  ELSE 0
\* a migration that leaves the flash behind the old record as it finds it
EraseNewFieldsNone(rom, version) == rom

\* "erase newly added fields": zero programmed over every member behind the
\* old record size
EraseNewFields(rom, version) ==
  [f \in Fields |->
     IF FieldIndex(f) > OldStorageFields(version)
     THEN FlashWriteField(f, rom[f], ZeroStorage[f])
     ELSE rom[f]]
\* the scan of the U2F area: the number of zero bits from its start
\* (it runs on into the reserved word behind the area)
U2FScan(fl) ==
  LET nz == {i \in 1..Len(fl.u2farea) : fl.u2farea[i] # Zero}
      w == IF nz = {} THEN Len(fl.u2farea) + 1
           ELSE CHOOSE i \in nz : \A j \in nz : i <= j
      word == IF nz = {} THEN AllOnes ELSE fl.u2farea[w]
      low == CHOOSE b \in word : \A c \in word : b <= c
  IN  32 * (w - 1) + low
\* a conversion that shifts by the low half of the count, without the cap
LegacyPinWordNoCap(rom) ==
  Shl(AllOnes, IF rom.has_pin_failed_attempts THEN rom.pin_failed_attempts[2] ELSE 0)

\* the legacy PIN failure count converted to a PIN area word
LegacyPinWord(rom) ==
  LET c == IF rom.has_pin_failed_attempts THEN rom.pin_failed_attempts ELSE U32Of(0)
      pinctr == IF U32Lt(U32Of(31), c) THEN 31 ELSE c[2]
  IN  Shl(AllOnes, pinctr)

\* the outcome of storage_from_flash: [ok, flash, uuid, offset] are its result,
\* the flash, storage_uuid and storage_u2f_offset afterwards (the staged update
\* is cleared on every path), why names the return statement taken, locks
\* lists the flash and the offset at each svc_flash_lock the run reaches
FromFlashReject(fl, why) ==
  [ok |-> FALSE, flash |-> fl, uuid |-> ZeroUuid, offset |-> 0, why |-> why,
   locks |-> << >>, calls |-> << >>]
\* storage_from_flash behind the downgrade check without SUPPORT_LEGACY_VERSION
FromFlashCurrent(fl) ==
  [ok |-> fl.rom.version = STORAGE_VERSION, flash |-> fl, uuid |-> fl.uuid, offset |-> 0,
   why |-> IF fl.rom.version = STORAGE_VERSION THEN "ok" ELSE "version",
   locks |-> << >>, calls |-> << >>]
\* storage_from_flash behind the downgrade check with SUPPORT_LEGACY_VERSION
FromFlashLegacy(fl) ==
  LET version == fl.rom.version
      \* erase newly added fields
      f1 == IF OldStorageFields(version) # NFields
            THEN [fl EXCEPT !.rom = EraseNewFields(@, version)] ELSE fl
      \* convert PIN failure counter from version 5 format
      f2 == IF U32Le(version, U32Of(5))
            THEN LET e == EraseSectorLast(f1)
                 IN  [e EXCEPT !.pinarea[1] = FlashWrite32(@, LegacyPinWord(f1.rom))]
            ELSE f1
      offset == U2FScan(f2)
      \* force recomputing u2f root for storage version < 9
      upd == IF U32Lt(version, U32Of(9))
             THEN [ZeroStorage EXCEPT
                     !.has_mnemonic = f2.rom.has_mnemonic,
                     !.mnemonic = Strlcpy(f2.rom.mnemonic, MNEMONIC_SIZE)]
             ELSE ZeroStorage
      \* update storage version on flash
      f3 == IF version # STORAGE_VERSION
            THEN CommitPrefix(f2, fl.uuid, CommitImage(upd, f2.rom, TRUE), CommitSteps)
            ELSE f2
  IN  [ok |-> TRUE, flash |-> f3, uuid |-> fl.uuid, offset |-> offset, why |-> "ok",
       locks |-> (IF OldStorageFields(version) # NFields
                  THEN << [flash |-> f1, offset |-> 0] >> ELSE << >>)
                 \o (IF U32Le(version, U32Of(5))
                     THEN << [flash |-> f2, offset |-> 0] >> ELSE << >>)
                 \o (IF version # STORAGE_VERSION
                     THEN << [flash |-> f3, offset |-> offset] >> ELSE << >>),
       calls |-> (IF OldStorageFields(version) # NFields
                  THEN << "svc_flash_unlock" >>
                       \o Repeat("flash_write32", NFields - OldStorageFields(version))
                       \o << "svc_flash_lock" >>
                  ELSE << >>)
                 \o (IF U32Le(version, U32Of(5))
                     THEN << "svc_flash_unlock", "svc_flash_erase_sector",
                             "flash_write32", "svc_flash_lock" >>
                     ELSE << >>)
                 \o (IF version # STORAGE_VERSION
                     THEN storage_updateCalls(upd) ELSE << >>)]

\* a storage_from_flash that accepts a record of any version
storage_from_flashAnyVersion(fl, legacy) ==
  IF fl.magic # storage_magic THEN FromFlashReject(fl, "magic")
  ELSE IF ~legacy THEN FromFlashCurrent(fl)
  ELSE FromFlashLegacy(fl)

\* storage_from_flash on flash fl with the RAM as the boot left it
storage_from_flash(fl, legacy) ==
  IF fl.magic # storage_magic THEN FromFlashReject(fl, "magic")
  ELSE IF U32Lt(STORAGE_VERSION, fl.rom.version) THEN FromFlashReject(fl, "downgrade")
  ELSE IF ~legacy THEN FromFlashCurrent(fl)
  ELSE FromFlashLegacy(fl)

\* storage_clearPinArea
storage_clearPinArea(fl) == EraseSectorLast(fl)

\* the calls of storage_init: those of storage_from_flash, and those of
\* storage_wipe when it returns false
storage_initCalls(fl, legacy) ==
  LET r == storage_from_flash(fl, legacy)
  IN  IF r.ok THEN r.calls ELSE storage_wipeCalls

\* a wipe that leaves the PIN / U2F sector alone
storage_wipeKeepPinArea(fl, uuid) ==
  CommitPrefix(fl, uuid, CommitImage(ZeroStorage, fl.rom, FALSE), CommitSteps)

\* the flash at the first svc_flash_lock of storage_wipe: the empty record
\* committed, the PIN / U2F sector not yet erased
WipeCommitted(fl, uuid) ==
  CommitPrefix(fl, uuid, CommitImage(ZeroStorage, fl.rom, FALSE), CommitSteps)

\* the flash after storage_wipe with the freshly generated uuid
storage_wipe(fl, uuid) ==
  storage_clearPinArea(
    CommitPrefix(fl, uuid, CommitImage(ZeroStorage, fl.rom, FALSE), CommitSteps))


(***************************************************************************)
(* Setters: the staged update after each call                              *)
(***************************************************************************)
\* a char* argument: the null pointer, or a pointer to a string
Null == [null |-> TRUE, str |-> <<>>]
Ptr(str) == [null |-> FALSE, str |-> str]

storage_setLabel(upd, label) ==
  IF label.null THEN [upd EXCEPT !.has_label = TRUE]
  ELSE [upd EXCEPT !.has_label = TRUE, !.label = Strlcpy(label.str, LABEL_SIZE)]
LangEnglish == <<"e", "n", "g", "l", "i", "s", "h">>
LangEN == <<"E", "N">>
LangFR == <<"F", "R">>
LangDE == <<"D", "E">>
storage_setLanguage(upd, lang) ==
  IF lang.null THEN upd
  ELSE IF lang.str = LangEnglish
  THEN [upd EXCEPT !.has_language = TRUE, !.language = Strlcpy(LangEN, LANGUAGE_SIZE)]
  ELSE IF lang.str = LangEN \/ lang.str = LangFR \/ lang.str = LangDE
  THEN [upd EXCEPT !.has_language = TRUE, !.language = Strlcpy(lang.str, LANGUAGE_SIZE)]
  ELSE upd
storage_setPin(upd, pin) ==
  [upd EXCEPT !.has_pin = TRUE, !.pin = Strlcpy(pin, PIN_SIZE)]
storage_setPassphraseProtection(upd, passphrase_protection) ==
  [upd EXCEPT !.has_passphrase_protection = TRUE,
              !.passphrase_protection = passphrase_protection]
storage_setHomescreen(upd, data, size) ==
  IF ~data.null /\ size = HOMESCREEN_SIZE
  THEN [upd EXCEPT !.has_homescreen = TRUE,
                   !.homescreen = [size |-> U32Of(size), bytes |-> data.str]]
  ELSE [upd EXCEPT !.has_homescreen = TRUE,
                   !.homescreen = [size |-> U32Of(0), bytes |-> <<"zero">>]]
storage_setImported(upd, imported) ==
  [upd EXCEPT !.has_imported = TRUE, !.imported = imported]
storage_setNeedsBackup(upd, needs_backup) ==
  [upd EXCEPT !.has_needs_backup = TRUE, !.needs_backup = needs_backup]
storage_setU2FCounter(upd, u2fcounter, offset) ==
  [upd EXCEPT !.has_u2f_counter = TRUE,
              !.u2f_counter = U32Sub(u2fcounter, U32Of(offset))]
storage_setMnemonic(upd, mnemonic) ==
  [upd EXCEPT !.has_mnemonic = TRUE, !.mnemonic = Strlcpy(mnemonic, MNEMONIC_SIZE)]
storage_applyFlags(upd, rom, flags) ==
  IF BitOr(rom.flags, flags) = rom.flags THEN upd
  ELSE [upd EXCEPT !.has_flags = TRUE, !.flags = BitOr(@, flags)]

\* storage_loadDevice(msg) up to its storage_update: the staged update
storage_loadDevice(upd, msg, offset) ==
  LET u1 == [upd EXCEPT !.has_imported = TRUE, !.imported = TRUE]
      u2 == storage_setPin(u1, IF msg.has_pin THEN msg.pin ELSE <<>>)
      u3 == storage_setPassphraseProtection(
              u2, msg.has_passphrase_protection /\ msg.passphrase_protection)
      u4 == IF msg.has_node
            THEN [u3 EXCEPT !.has_node = TRUE, !.has_mnemonic = FALSE, !.node = msg.node]
            ELSE IF msg.has_mnemonic
            THEN [u3 EXCEPT !.has_mnemonic = TRUE, !.has_node = FALSE,
                            !.mnemonic = Strlcpy(msg.mnemonic, MNEMONIC_SIZE)]
            ELSE u3
      u5 == IF msg.has_language
            THEN [u4 EXCEPT !.has_language = TRUE,
                            !.language = Strlcpy(msg.language, LANGUAGE_SIZE)]
            ELSE u4
      u6 == storage_setLabel(u5, Ptr(IF msg.has_label THEN msg.label ELSE <<>>))
  IN  IF msg.has_u2f_counter
      THEN [u6 EXCEPT !.has_u2f_counter = TRUE,
                      !.u2f_counter = U32Sub(msg.u2f_counter, U32Of(offset))]
      ELSE u6
\* the session cache after storage_setPin and storage_setPassphraseProtection
SetPinSession(s) == [s EXCEPT !.PinCached = FALSE]
SetPassphraseProtectionSession(s) ==
  [s EXCEPT !.SeedCached = FALSE, !.PassphraseCached = FALSE]

\* the session cache after storage_loadDevice up to its storage_update
LoadDeviceSession(s, msg) ==
  LET s1 == SetPassphraseProtectionSession(SetPinSession(SessionClear(s, TRUE)))
  IN  IF msg.has_node \/ msg.has_mnemonic
      THEN [s1 EXCEPT !.SeedCached = FALSE, !.Seed = ZeroSeed]
      ELSE s1

(***************************************************************************)
(* Getters                                                                 *)
(***************************************************************************)
\* a getter's result: <<TRUE, value>>, or Absent for a null pointer / false
Absent == <<FALSE, <<>>>>
storage_getLabel(rom) == IF rom.has_label THEN <<TRUE, rom.label>> ELSE Absent
storage_getLanguage(rom) == IF rom.has_language THEN <<TRUE, rom.language>> ELSE Absent
storage_getHomescreen(rom) ==
  IF rom.has_homescreen /\ rom.homescreen.size = U32Of(HOMESCREEN_SIZE)
  THEN <<TRUE, rom.homescreen.bytes>> ELSE Absent
storage_hasPin(rom) == rom.has_pin /\ rom.pin # <<>>
storage_hasPassphraseProtection(rom) ==
  rom.has_passphrase_protection /\ rom.passphrase_protection
storage_isImported(rom) == rom.has_imported /\ rom.imported
storage_needsBackup(upd, rom) ==
  IF upd.has_needs_backup THEN upd.needs_backup
  ELSE rom.has_needs_backup /\ rom.needs_backup
storage_getFlags(rom) == IF rom.has_flags THEN rom.flags ELSE Zero

(***************************************************************************)
(* Constant-time comparison                                                *)
(***************************************************************************)
\* the byte value of a character
CharCode ==
  [c \in {"1", "2", "3", "a", "b", "c", ErasedChar} |->
     CASE c = "1" -> 49 [] c = "2" -> 50 [] c = "3" -> 51
       [] c = "a" -> 97 [] c = "b" -> 98 [] c = "c" -> 99
       [] OTHER -> 255]
\* the one-bits of a char value
ByteBits(n) == {i \in 0..7 : (n \div Pow2(i)) % 2 = 1}
\* buf[i] of a char buffer that holds a string: its character, and NUL behind it
BufferByte(str, i) == IF i < Len(str) THEN CharCode[str[i + 1]] ELSE 0

RECURSIVE CompareLoopNoSentinel(_, _, _, _)
\* a comparison that stops at the end of the candidate without looking at the
\* stored byte there
CompareLoopNoSentinel(stored, cand, i, diff) ==
  IF i < Len(cand)
  THEN CompareLoopNoSentinel(stored, cand, i + 1,
         diff \cup ByteBits((BufferByte(stored, i) - BufferByte(cand, i)) % 256))
  ELSE [diff |-> diff, steps |-> i + 1]

RECURSIVE CompareLoop(_, _, _, _)
\* the loop of storage_containsMnemonic and storage_containsPin from index i on
\* with the accumulated diff: one step per character of the candidate, and
\* the step on the stored byte at the candidate's NUL
CompareLoop(stored, cand, i, diff) ==
  IF i < Len(cand)
  THEN CompareLoop(stored, cand, i + 1,
         diff \cup ByteBits((BufferByte(stored, i) - BufferByte(cand, i)) % 256))
  ELSE [diff |-> diff \cup ByteBits(BufferByte(stored, i)), steps |-> i + 1]

\* storage_containsMnemonic(mnemonic): the result and the number of byte
\* positions compared
storage_containsMnemonic(rom, mnemonic) ==
  LET r == CompareLoop(rom.mnemonic, mnemonic, 0, {})
  IN  [result |-> r.diff = {}, steps |-> r.steps]
\* storage_containsPin(pin)
storage_containsPin(rom, pin) ==
  LET r == CompareLoop(rom.pin, pin, 0, {})
  IN  [result |-> r.diff = {}, steps |-> r.steps]

(***************************************************************************)
(* Inputs                                                                  *)
(***************************************************************************)
LabelArgs == {Null, Ptr(<<>>), Ptr(<<"L">>)}
LanguageArgs == {Null, Ptr(LangEnglish), Ptr(LangEN), Ptr(LangFR), Ptr(LangDE),
                 Ptr(<<"X", "X">>)}
PinArgs == {<<>>, <<"1", "2">>}
HomescreenArgs == {<<Null, 1024>>, <<Ptr(<<"img">>), 1024>>, <<Ptr(<<"img">>), 16>>}
U2FCounterArgs == {U32Of(0), U32Of(7)}
MnemonicArgs == {<<"a", "b">>, <<"c">>}
PassphraseArgs == {<<>>, <<"p">>}
FlagArgs == {{}, {0}, {1}, {0, 1}}
\* LoadDevice messages: the optional members pin, node, mnemonic, language,
\* label and u2f_counter present or not
LoadDeviceMsgs ==
  { [ has_pin |-> pin # <<>>, pin |-> pin,
      has_passphrase_protection |-> TRUE, passphrase_protection |-> FALSE,
      has_node |-> secret = "node", node |-> <<"node">>,
      has_mnemonic |-> secret = "mnemonic", mnemonic |-> <<"a", "b">>,
      has_language |-> lang # <<>>, language |-> lang,
      has_label |-> label # <<>>, label |-> label,
      has_u2f_counter |-> secret = "node", u2f_counter |-> U32Of(7) ] :
    pin \in PinArgs, secret \in {"none", "mnemonic", "node"},
    lang \in {<<>>, LangEN, LangEnglish, <<"X", "X">>}, label \in {<<>>, <<"L">>} }


(***************************************************************************)
(* Actions                                                                 *)
(***************************************************************************)
NoCut == [in |-> "none", old |-> ZeroStorage, new |-> ZeroStorage,
          pinfails |-> AllOnes]

\* no call of a value-returning function observed yet
NoRet == [fn |-> "none"]

\* a setter: only the staged update and the session cache change
Stage(name, upd, sess) ==
  /\ nCalls < MaxCalls
  /\ storageUpdate' = upd
  /\ session' = sess
  /\ nCalls' = nCalls + 1
  /\ op' = name
  /\ calls' = << >>
  /\ UNCHANGED << SUPPORT_LEGACY_VERSION, flash_sr, ret, flash, storage_uuid, storage_u2f_offset,
                  power, nU2F, nLoss, u2fRet, cut, pinFreshK >>

SetLabel ==
  \E label \in LabelArgs :
    /\ power = "on"
    /\ Stage("setLabel", storage_setLabel(storageUpdate, label), session)
SetLanguage ==
  \E lang \in LanguageArgs :
    /\ power = "on"
    /\ Stage("setLanguage", storage_setLanguage(storageUpdate, lang), session)
SetPin ==
  \E pin \in PinArgs :
    /\ power = "on"
    /\ Stage("setPin", storage_setPin(storageUpdate, pin), SetPinSession(session))
SetPassphraseProtection ==
  \E b \in BOOLEAN :
    /\ power = "on"
    /\ Stage("setPassphraseProtection", storage_setPassphraseProtection(storageUpdate, b),
             SetPassphraseProtectionSession(session))
SetHomescreen ==
  \E a \in HomescreenArgs :
    /\ power = "on"
    /\ Stage("setHomescreen", storage_setHomescreen(storageUpdate, a[1], a[2]), session)
SetImported ==
  \E b \in BOOLEAN :
    /\ power = "on"
    /\ Stage("setImported", storage_setImported(storageUpdate, b), session)
SetNeedsBackup ==
  \E b \in BOOLEAN :
    /\ power = "on"
    /\ Stage("setNeedsBackup", storage_setNeedsBackup(storageUpdate, b), session)
SetU2FCounter ==
  \E u \in U2FCounterArgs :
    /\ power = "on"
    /\ Stage("setU2FCounter", storage_setU2FCounter(storageUpdate, u, storage_u2f_offset),
             session)
SetMnemonic ==
  \E m \in MnemonicArgs :
    /\ power = "on"
    /\ Stage("setMnemonic", storage_setMnemonic(storageUpdate, m), session)
ApplyFlags ==
  \E f \in FlagArgs :
    /\ power = "on"
    /\ Stage("applyFlags", storage_applyFlags(storageUpdate, flash.rom, f), session)

\* the RAM and the power state after a power loss: the next boot starts from
\* zeroed statics
PowerLoss ==
  /\ nLoss < MaxPowerLoss
  /\ nLoss' = nLoss + 1
  /\ storage_uuid' = ZeroUuid
  /\ storageUpdate' = ZeroStorage
  /\ storage_u2f_offset' = 0
  /\ session' = ZeroSession
  /\ power' = "off"

\* FLASH_SR_PGAERR | FLASH_SR_PGPERR | FLASH_SR_PGSERR | FLASH_SR_WRPERR
FlashErrorMask == {"PGAERR", "PGPERR", "PGSERR", "WRPERR"}

\* the error bits of the flash status register; OPERR is outside the mask
FlashStatusBits == FlashErrorMask \cup {"OPERR"}

\* the values svc_flash_lock returns when a program/erase sequence has set
\* one of the bits PGAERR, PGPERR, PGSERR, WRPERR
ErrorStatuses ==
  {{b} : b \in FlashErrorMask} \cup {{"PGAERR", "OPERR"}, {"WRPERR", "OPERR"}, FlashStatusBits}

\* a storage_check_flash_errors that leaves WRPERR out of its mask
storage_check_flash_errorsNoWRPERR(status) ==
  (status \cap (FlashErrorMask \ {"WRPERR"})) # {}

\* storage_check_flash_errors(status): TRUE when it calls storage_show_error
storage_check_flash_errors(status) ==
  (status \cap FlashErrorMask) # {}

\* the calls up to and with the n-th svc_flash_lock: an operation that
\* storage_check_flash_errors stops there makes no call behind it
UpToLock(calls_, n) ==
  LET locks == {i \in 1..Len(calls_) : calls_[i] = "svc_flash_lock"}
      upto == {i \in locks : Cardinality({j \in locks : j <= i}) = n}
  IN  IF upto = {} THEN calls_ ELSE SubSeq(calls_, 1, CHOOSE i \in upto : TRUE)

\* the calls of an operation whose n-th svc_flash_lock returns status
LockedCalls(calls_, status, n) ==
  IF storage_check_flash_errors(status)
  THEN UpToLock(calls_, n) ELSE calls_

\* the calls up to and with the k-th flash operation: an operation cut short
\* by a power loss behind it
CutCalls(calls_, k) ==
  LET ops == {i \in 1..Len(calls_) :
                calls_[i] \in {"svc_flash_erase_sector", "flash_write32"}}
      upto == {i \in ops : Cardinality({j \in ops : j <= i}) = k}
  IN  IF upto = {} THEN calls_ ELSE SubSeq(calls_, 1, CHOOSE i \in upto : TRUE)

\* storage_check_flash_errors(svc_flash_lock()) at the end of operation name:
\* storage_show_error ends in shutdown(), which does not return
FlashLock(status, name) ==
  /\ flash_sr' = status
  /\ power' = IF storage_check_flash_errors(status) THEN "halted" ELSE power
  /\ op' = IF storage_check_flash_errors(status) THEN name \o "_fatal" ELSE name

\* storage_update whose svc_flash_lock returns status
UpdateLock(status) ==
  /\ power = "on"
  /\ \E image \in {CommitImage(storageUpdate, flash.rom, TRUE)} :
       flash' = CommitPrefix(flash, storage_uuid, image, CommitSteps)
  /\ session' = CommitSession(session, storageUpdate, TRUE)
  /\ storageUpdate' = ZeroStorage
  /\ FlashLock(status, "update")
  /\ calls' = storage_updateCalls(storageUpdate)
  /\ UNCHANGED << SUPPORT_LEGACY_VERSION, ret, storage_uuid, storage_u2f_offset,
                  nCalls, nU2F, nLoss, u2fRet, cut, pinFreshK >>

\* storage_update
Update == UpdateLock({})

\* storage_update with a flash status error
UpdateFlashError == \E status \in ErrorStatuses : UpdateLock(status)

\* storage_loadDevice: the message staged, then storage_update
LoadDevice ==
  /\ power = "on"
  /\ nCalls < MaxCalls
  /\ \E msg \in LoadDeviceMsgs :
       \E upd \in {storage_loadDevice(storageUpdate, msg, storage_u2f_offset)} :
         /\ \E image \in {CommitImage(upd, flash.rom, TRUE)} :
              flash' = CommitPrefix(flash, storage_uuid, image, CommitSteps)
         /\ session' = CommitSession(LoadDeviceSession(session, msg), upd, TRUE)
         /\ calls' = storage_updateCalls(upd)
  /\ storageUpdate' = ZeroStorage
  /\ nCalls' = nCalls + 1
  /\ FlashLock({}, "loadDevice")
  /\ UNCHANGED << SUPPORT_LEGACY_VERSION, ret, storage_uuid,
                  storage_u2f_offset, nU2F, nLoss, u2fRet, cut, pinFreshK >>

\* storage_update cut short by a power loss after k of its flash operations
UpdateCut ==
  /\ power = "on"
  /\ \E k \in 1..(CommitSteps - 1),
        image \in {CommitImage(storageUpdate, flash.rom, TRUE)} :
       /\ flash' = CommitPrefix(flash, storage_uuid, image, k)
       /\ cut' = [in |-> "commit", old |-> flash.rom, new |-> image,
                  pinfails |-> AllOnes]
       /\ calls' = CutCalls(storage_updateCalls(storageUpdate), k)
  /\ PowerLoss
  /\ op' = "powerloss"
  /\ UNCHANGED << SUPPORT_LEGACY_VERSION, flash_sr, ret, nCalls, nU2F, u2fRet, pinFreshK >>

\* storage_wipe where svc_flash_lock number at returns status (at = 1 behind
\* storage_commit_locked, at = 2 in storage_clearPinArea; at = 0: no error)
WipeLock(status, at) ==
  /\ power = "on"
  /\ \E uuid \in Uuids :
       /\ storage_uuid' = uuid
       /\ flash' = IF storage_check_flash_errors(status) /\ at = 1
                   THEN WipeCommitted(flash, uuid)
                   ELSE storage_wipe(flash, uuid)
  /\ session' = SessionClear(session, TRUE)
  /\ storageUpdate' = ZeroStorage
  /\ storage_u2f_offset' = IF storage_check_flash_errors(status)
                           THEN storage_u2f_offset ELSE 0
  /\ pinFreshK' = IF storage_check_flash_errors(status) /\ at = 1 THEN pinFreshK ELSE 0
  /\ FlashLock(status, IF op \in {"wipe", "wipe_again"} THEN "wipe_again" ELSE "wipe")
  /\ calls' = LockedCalls(storage_wipeCalls, status, at)
  /\ UNCHANGED << SUPPORT_LEGACY_VERSION, ret, nCalls, nU2F, nLoss, u2fRet, cut >>

\* storage_wipe
Wipe == WipeLock({}, 0)

\* storage_wipe with a flash status error
WipeFlashError == \E status \in ErrorStatuses, at \in 1..2 : WipeLock(status, at)

\* storage_clearPinArea whose svc_flash_lock returns status
ClearPinAreaLock(status) ==
  /\ power = "on"
  /\ flash' = storage_clearPinArea(flash)
  /\ storage_u2f_offset' = IF storage_check_flash_errors(status)
                           THEN storage_u2f_offset ELSE 0
  /\ pinFreshK' = 0
  /\ FlashLock(status, "clearPinArea")
  /\ calls' = storage_clearPinAreaCalls
  /\ UNCHANGED << SUPPORT_LEGACY_VERSION, ret, storage_uuid, storageUpdate, session,
                  nCalls, nU2F, nLoss, u2fRet, cut >>

\* storage_clearPinArea
ClearPinArea == ClearPinAreaLock({})

\* storage_clearPinArea with a flash status error
ClearPinAreaFlashError == \E status \in ErrorStatuses : ClearPinAreaLock(status)

\* the power removed while no operation runs
PowerOff ==
  /\ power = "on"
  /\ PowerLoss
  /\ cut' = [NoCut EXCEPT !.in = "idle"]
  /\ op' = "powerloss"
  /\ calls' = << >>
  /\ UNCHANGED << SUPPORT_LEGACY_VERSION, flash_sr, ret, flash, nCalls, nU2F, u2fRet, pinFreshK >>

\* storage_init at power-on where svc_flash_lock number at of the run returns
\* status (at = 0: no error); the locks of a run are those of
\* storage_from_flash, or those of storage_wipe when it returns false
BootLock(status, at) ==
  /\ power = "off"
  /\ \E r \in {storage_from_flash(flash, SUPPORT_LEGACY_VERSION)} :
       IF r.ok
       THEN /\ at <= Len(r.locks)
            /\ IF storage_check_flash_errors(status)
               THEN /\ flash' = r.locks[at].flash
                    /\ storage_u2f_offset' = r.locks[at].offset
                    /\ ret' = ret
               ELSE /\ flash' = r.flash
                    /\ storage_u2f_offset' = r.offset
                    /\ ret' = [fn |-> "storage_from_flash", ok |-> r.ok, why |-> r.why]
            /\ storage_uuid' = r.uuid
            /\ pinFreshK' = IF flash'.pinarea = flash.pinarea THEN pinFreshK ELSE -1
            /\ op' = IF storage_check_flash_errors(status) THEN "boot_fatal" ELSE "boot"
       ELSE /\ at <= 2
            /\ ret' = [fn |-> "storage_from_flash", ok |-> r.ok, why |-> r.why]
            /\ \E uuid \in Uuids :
                 /\ storage_uuid' = uuid
                 /\ flash' = IF storage_check_flash_errors(status) /\ at = 1
                             THEN WipeCommitted(r.flash, uuid)
                             ELSE storage_wipe(r.flash, uuid)
            /\ storage_u2f_offset' = 0
            /\ pinFreshK' = 0
            /\ op' = IF storage_check_flash_errors(status)
                     THEN "boot_wipe_fatal" ELSE "boot_wipe"
  /\ power' = IF storage_check_flash_errors(status) THEN "halted" ELSE "on"
  /\ flash_sr' = status
  /\ calls' = LockedCalls(storage_initCalls(flash, SUPPORT_LEGACY_VERSION), status, at)
  /\ storageUpdate' = ZeroStorage
  /\ session' = ZeroSession
  /\ cut' = [NoCut EXCEPT !.in = cut.in]
  /\ UNCHANGED << SUPPORT_LEGACY_VERSION, nCalls, nU2F, nLoss, u2fRet >>

\* storage_init at power-on
Boot == BootLock({}, 0)

\* storage_init at power-on with a flash status error
BootFlashError == \E status \in ErrorStatuses, at \in 1..3 : BootLock(status, at)

\* flash_write32 at a word index of the PIN area scan
ProgramPinWord(fl, idx, val) ==
  IF idx <= PinAreaWords
  THEN [fl EXCEPT !.pinarea[idx] = FlashWrite32(@, val)]
  ELSE IF idx <= PinAreaWords + Len(fl.u2farea)
  THEN [fl EXCEPT !.u2farea[idx - PinAreaWords] = FlashWrite32(@, val)]
  ELSE fl

\* a storage_increasePinFails that programs the new counter word whatever it is
storage_increasePinFailsAlways(fl, idx) ==
  [flash |-> ProgramPinWord(fl, idx, IncreasedPinWord(PinWordAt(fl, idx))), ok |-> TRUE]

\* storage_increasePinFails(flash_pinfails): the flash afterwards and the result
storage_increasePinFails(fl, idx) ==
  LET newctr == IncreasedPinWord(PinWordAt(fl, idx))
      programmed == ProgramPinWord(fl, idx, newctr)
  IN  IF newctr = Zero THEN [flash |-> fl, ok |-> TRUE]
      ELSE [flash |-> programmed, ok |-> PinWordAt(programmed, idx) = newctr]

\* storage_increasePinFails(storage_getPinFailsOffset()) whose svc_flash_lock
\* returns status; a call that finds the counter at its maximum returns before
\* the flash is unlocked and leaves the status register alone
IncreasePinFailsLock(status) ==
  /\ power = "on"
  /\ \E idx \in {storage_getPinFailsOffset(flash)} :
       /\ status # {} => IncreasedPinWord(PinWordAt(flash, idx)) # Zero
       /\ \E r \in {storage_increasePinFails(flash, idx)} :
            /\ flash' = r.flash
            /\ FlashLock(IF IncreasedPinWord(PinWordAt(flash, idx)) # Zero
                         THEN status ELSE flash_sr,
                         IF r.ok THEN "increasePinFails" ELSE "increasePinFails_false")
  /\ pinFreshK' = IF pinFreshK >= 0 /\ pinFreshK < WORD_BITS THEN pinFreshK + 1
                  ELSE pinFreshK
  /\ calls' = storage_increasePinFailsCalls(
                IncreasedPinWord(PinWordAt(flash, storage_getPinFailsOffset(flash))))
  /\ UNCHANGED << SUPPORT_LEGACY_VERSION, ret, storage_uuid, storageUpdate,
                  storage_u2f_offset, session, nCalls, nU2F, nLoss, u2fRet, cut >>

\* storage_increasePinFails(storage_getPinFailsOffset())
IncreasePinFails == IncreasePinFailsLock({})

\* storage_increasePinFails with a flash status error
IncreasePinFailsFlashError == \E status \in ErrorStatuses : IncreasePinFailsLock(status)

\* the RAM after a completed storage_area_recycle
RecycleDone ==
  /\ session' = CommitSession(session, RecycleUpdate(storageUpdate, storage_u2f_offset), TRUE)
  /\ storageUpdate' = ZeroStorage
  /\ storage_u2f_offset' = 0

\* storage_resetPinFails(storage_getPinFailsOffset()) whose svc_flash_lock
\* returns status
ResetPinFailsLock(status) ==
  /\ power = "on"
  /\ LET idx == storage_getPinFailsOffset(flash) IN
       IF PinAreaExhausted(idx)
       THEN /\ flash' = RecyclePrefix(flash, storage_uuid, storageUpdate,
                                      storage_u2f_offset, AllOnes, RecycleSteps)
            /\ RecycleDone
       ELSE /\ flash' = ProgramPinWord(flash, idx, Zero)
            /\ UNCHANGED << storageUpdate, storage_u2f_offset, session >>
  /\ pinFreshK' = -1
  /\ FlashLock(status, "resetPinFails")
  /\ calls' = storage_resetPinFailsCalls(
                storageUpdate, PinAreaExhausted(storage_getPinFailsOffset(flash)))
  /\ UNCHANGED << SUPPORT_LEGACY_VERSION, ret, storage_uuid, nCalls, nU2F, nLoss,
                  u2fRet, cut >>

\* storage_resetPinFails(storage_getPinFailsOffset())
ResetPinFails == ResetPinFailsLock({})

\* storage_resetPinFails with a flash status error
ResetPinFailsFlashError == \E status \in ErrorStatuses : ResetPinFailsLock(status)

\* storage_resetPinFails cut short by a power loss after k flash operations
\* of its storage_area_recycle
ResetPinFailsCut ==
  /\ power = "on"
  /\ PinAreaExhausted(storage_getPinFailsOffset(flash))
  /\ \E k \in 1..(RecycleSteps - 1) :
       /\ flash' = RecyclePrefix(flash, storage_uuid, storageUpdate,
                                 storage_u2f_offset, AllOnes, k)
       /\ calls' = CutCalls(storage_resetPinFailsCalls(storageUpdate, TRUE), k)
  /\ cut' = [NoCut EXCEPT !.in = "recycle", !.pinfails = AllOnes]
  /\ PowerLoss
  /\ pinFreshK' = -1
  /\ op' = "powerloss"
  /\ UNCHANGED << SUPPORT_LEGACY_VERSION, flash_sr, ret, nCalls, nU2F, u2fRet >>

\* storage_nextU2FCounter whose svc_flash_lock returns status; the counter is
\* returned behind the check
NextU2FCounterLock(status) ==
  /\ power = "on"
  /\ LET fl1 == U2FClearBit(flash, storage_u2f_offset)
         off1 == storage_u2f_offset + 1
         new_pinfails == PinWordAt(fl1, storage_getPinFailsOffset(fl1))
     IN  IF U2FAreaFull(off1)
         THEN /\ flash' = RecyclePrefix(fl1, storage_uuid, storageUpdate, off1,
                                        new_pinfails, RecycleSteps)
              /\ session' = CommitSession(session, RecycleUpdate(storageUpdate, off1), TRUE)
              /\ storageUpdate' = ZeroStorage
              /\ storage_u2f_offset' = 0
              /\ pinFreshK' = -1
         ELSE /\ flash' = fl1
              /\ storage_u2f_offset' = off1
              /\ UNCHANGED << storageUpdate, session, pinFreshK >>
  /\ u2fRet' = IF storage_check_flash_errors(status) THEN u2fRet
               ELSE U2FCounterValue(flash'.rom, storage_u2f_offset')
  /\ nU2F' = nU2F + 1
  /\ FlashLock(status, "nextU2FCounter")
  /\ calls' = storage_nextU2FCounterCalls(
                storageUpdate, U2FAreaFull(storage_u2f_offset + 1))
  /\ UNCHANGED << SUPPORT_LEGACY_VERSION, ret, nLoss, storage_uuid, nCalls, cut >>

\* storage_nextU2FCounter
NextU2FCounterCall == NextU2FCounterLock({})

\* storage_nextU2FCounter with a flash status error
NextU2FCounterFlashError ==
  /\ nU2F < MaxU2FCalls
  /\ \E status \in ErrorStatuses : NextU2FCounterLock(status)

\* storage_nextU2FCounter, a bounded number of times
NextU2FCounter ==
  /\ nU2F < MaxU2FCalls
  /\ NextU2FCounterCall
\* storage_nextU2FCounter, until the U2F area has been filled and one call more
NextU2FCounterFill ==
  /\ nU2F <= U2fAreaBits
  /\ NextU2FCounterCall

\* storage_nextU2FCounter cut short by a power loss after k flash operations
\* of its storage_area_recycle
NextU2FCounterCut ==
  /\ power = "on"
  /\ nU2F < MaxU2FCalls
  /\ U2FAreaFull(storage_u2f_offset + 1)
  /\ LET fl1 == U2FClearBit(flash, storage_u2f_offset)
         off1 == storage_u2f_offset + 1
         new_pinfails == PinWordAt(fl1, storage_getPinFailsOffset(fl1))
     IN  /\ \E k \in 1..(RecycleSteps - 1) :
              /\ flash' = RecyclePrefix(fl1, storage_uuid, storageUpdate, off1,
                                        new_pinfails, k)
              /\ calls' = CutCalls(storage_nextU2FCounterCalls(storageUpdate, TRUE), k + 1)
         /\ cut' = [NoCut EXCEPT !.in = "recycle", !.pinfails = new_pinfails]
  /\ PowerLoss
  /\ pinFreshK' = -1
  /\ op' = "powerloss"
  /\ UNCHANGED << SUPPORT_LEGACY_VERSION, flash_sr, ret, nCalls, nU2F, u2fRet >>

(***************************************************************************)
(* Session cache                                                           *)
(***************************************************************************)
\* session_cachePassphrase
PASSPHRASE_SIZE == 51
session_cachePassphrase(s, passphrase) ==
  [s EXCEPT !.Passphrase = Strlcpy(passphrase, PASSPHRASE_SIZE),
            !.PassphraseCached = TRUE]
\* mnemonic_check of the BIP-0039 library: the mnemonics it accepts
ValidMnemonics == {<<"a", "b">>}
mnemonic_check(mnemonic) == mnemonic \in ValidMnemonics

CachePassphrase ==
  /\ power = "on"
  /\ \E p \in PassphraseArgs : session' = session_cachePassphrase(session, p)
  /\ op' = "cachePassphrase"
  /\ calls' = << >>
  /\ UNCHANGED << SUPPORT_LEGACY_VERSION, flash_sr, ret, flash, storage_uuid, storageUpdate,
                  storage_u2f_offset, power, nCalls, nU2F, nLoss, u2fRet, cut, pinFreshK >>
CachePin ==
  /\ power = "on"
  /\ session' = [session EXCEPT !.PinCached = TRUE]
  /\ op' = "cachePin"
  /\ calls' = << >>
  /\ UNCHANGED << SUPPORT_LEGACY_VERSION, flash_sr, ret, flash, storage_uuid, storageUpdate,
                  storage_u2f_offset, power, nCalls, nU2F, nLoss, u2fRet, cut, pinFreshK >>
ClearSession ==
  /\ power = "on"
  /\ \E clear_pin \in BOOLEAN : session' = SessionClear(session, clear_pin)
  /\ op' = "sessionClear"
  /\ calls' = << >>
  /\ UNCHANGED << SUPPORT_LEGACY_VERSION, flash_sr, ret, flash, storage_uuid, storageUpdate,
                  storage_u2f_offset, power, nCalls, nU2F, nLoss, u2fRet, cut, pinFreshK >>

\* hmac_sha256 of the crypto library over the two parts of the message
HmacSha256(key, part1, part2) == <<"hmac", key, part1, part2>>
\* session_getState(salt, state, passphrase) with the bytes that random_buffer
\* would deliver: the result, and the two halves of state (untouched when the
\* call fails)
session_getState(s, uuid, salt, passphrase, random) ==
  IF passphrase.null /\ ~s.PassphraseCached
  THEN [ok |-> FALSE, salt |-> <<"untouched">>, hmac |-> <<"untouched">>]
  ELSE LET key == s.Passphrase
           first == IF salt.null THEN random ELSE salt.str
       IN  [ok |-> TRUE, salt |-> first, hmac |-> HmacSha256(key, first, uuid)]
SaltArgs == {Null, Ptr(<<"salt">>)}
RandomBytes == {<<"rnd1">>, <<"rnd2">>}
StatePassphraseArgs == {Null, Ptr(<<>>), Ptr(<<"p">>), Ptr(<<"q">>)}

GetState ==
  /\ power = "on"
  /\ \E salt \in SaltArgs, passphrase \in StatePassphraseArgs, random \in RandomBytes :
       ret' = [fn |-> "getState", salt |-> salt, passphrase |-> passphrase,
               random |-> random,
               out |-> session_getState(session, storage_uuid, salt, passphrase, random)]
  /\ op' = "getState"
  /\ calls' = << >>
  /\ UNCHANGED << SUPPORT_LEGACY_VERSION, flash_sr, flash, storage_uuid, storageUpdate,
                  storage_u2f_offset, session, power, nCalls, nU2F, nLoss, u2fRet, cut,
                  pinFreshK >>

\* candidates of the comparisons, and the secrets a device may hold
PinCandidates == {<<>>, <<"1">>, <<"1", "2">>, <<"1", "3">>, <<"2", "1">>,
                  <<"1", "2", "3">>}
MnemonicCandidates == {<<>>, <<"a">>, <<"a", "b">>, <<"a", "c">>, <<"c">>,
                       <<"a", "b", "c">>}
StoredPins == {<<>>, <<"1">>, <<"1", "2">>, <<"1", "3">>, <<"1", "2", "3">>}
StoredMnemonics == {<<>>, <<"a", "b">>, <<"a", "c">>, <<"c">>}

ContainsPin ==
  /\ power = "on"
  /\ \E pin \in PinCandidates :
       ret' = [fn |-> "containsPin", candidate |-> pin,
               out |-> storage_containsPin(flash.rom, pin)]
  /\ op' = "containsPin"
  /\ calls' = << >>
  /\ UNCHANGED << SUPPORT_LEGACY_VERSION, flash_sr, flash, storage_uuid, storageUpdate,
                  storage_u2f_offset, session, power, nCalls, nU2F, nLoss, u2fRet, cut,
                  pinFreshK >>
ContainsMnemonic ==
  /\ power = "on"
  /\ \E mnemonic \in MnemonicCandidates :
       ret' = [fn |-> "containsMnemonic", candidate |-> mnemonic,
               out |-> storage_containsMnemonic(flash.rom, mnemonic)]
  /\ op' = "containsMnemonic"
  /\ calls' = << >>
  /\ UNCHANGED << SUPPORT_LEGACY_VERSION, flash_sr, flash, storage_uuid, storageUpdate,
                  storage_u2f_offset, session, power, nCalls, nU2F, nLoss, u2fRet, cut,
                  pinFreshK >>

\* storage_getSeed(usePassphrase) on session cache s and record rom;
\* protectPassphrase asks the user when the passphrase protection is on and no
\* passphrase is cached: the user cancels or enters a passphrase, which is then
\* cached. out names the return taken: the cached seed, NULL, the shutdown of
\* storage_show_error, or the seed derived by mnemonic_to_seed
storage_getSeed(s, rom, usePassphrase, cancel, entered) ==
  LET hit == usePassphrase = s.SeedUsesPassphrase /\ s.SeedCached
      ask == usePassphrase /\ storage_hasPassphraseProtection(rom)
               /\ ~s.PassphraseCached
      s1 == IF ask THEN session_cachePassphrase(s, entered) ELSE s
      corrupt == (~rom.has_imported \/ ~rom.imported) /\ ~mnemonic_check(rom.mnemonic)
  IN  IF hit THEN [out |-> "cached", session |-> s]
      ELSE IF ~rom.has_mnemonic \/ (ask /\ cancel) THEN [out |-> "null", session |-> s]
      ELSE IF corrupt THEN [out |-> "fatal", session |-> s1]
      ELSE [out |-> "computed",
            session |-> [s1 EXCEPT
               !.Seed = MnemonicToSeed(rom.mnemonic,
                          IF usePassphrase THEN s1.Passphrase ELSE <<>>),
               !.SeedCached = TRUE,
               !.SeedUsesPassphrase = usePassphrase]]

\* storage_getSeed(usePassphrase)
GetSeed ==
  /\ power = "on"
  /\ \E usePassphrase \in BOOLEAN, cancel \in BOOLEAN, entered \in PassphraseArgs :
       \E r \in {storage_getSeed(session, flash.rom, usePassphrase, cancel, entered)} :
         /\ op' = "getSeed_" \o r.out
         /\ session' = r.session
         /\ power' = IF r.out = "fatal" THEN "halted" ELSE power
         /\ calls' = IF r.out = "computed" THEN storage_getSeedCalls ELSE << >>
  /\ UNCHANGED << SUPPORT_LEGACY_VERSION, flash_sr, ret, flash, storage_uuid, storageUpdate,
                  storage_u2f_offset, nCalls, nU2F, nLoss, u2fRet, cut, pinFreshK >>

\* the curve names storage_getRootNode is called with
Curves == {"secp256k1", "nist256p1"}

\* the decryption of the stored node in storage_getRootNode: the PBKDF2 of
\* the cached passphrase in eight pbkdf2_hmac_sha512_Update rounds
DecryptNodeCalls == << "pbkdf2" >>

\* storage_getRootNode(node, curve, usePassphrase): a stored node is taken
\* for secp256k1, after protectPassphrase, and decrypted when the passphrase
\* protection is on and a passphrase that is not empty is cached; any other
\* call derives the node from storage_getSeed
storage_getRootNode(s, rom, curve, usePassphrase, cancel, entered) ==
  IF rom.has_node /\ curve = "secp256k1"
  THEN LET ask == storage_hasPassphraseProtection(rom) /\ ~s.PassphraseCached
           s1 == IF ask /\ ~cancel THEN session_cachePassphrase(s, entered) ELSE s
           decrypt == rom.has_passphrase_protection /\ rom.passphrase_protection
                        /\ s1.PassphraseCached /\ s1.Passphrase # << >>
       IN  IF ask /\ cancel THEN [out |-> "false", session |-> s, calls |-> << >>]
           ELSE [out |-> IF decrypt THEN "node_decrypted" ELSE "node",
                 session |-> s1,
                 calls |-> IF decrypt THEN DecryptNodeCalls ELSE << >>]
  ELSE LET r == storage_getSeed(s, rom, usePassphrase, cancel, entered)
       IN  [out |-> "seed_" \o r.out, session |-> r.session,
            calls |-> IF r.out = "computed" THEN storage_getSeedCalls ELSE << >>]

\* storage_getRootNode(node, curve, usePassphrase)
GetRootNode ==
  /\ power = "on"
  /\ \E curve \in Curves, usePassphrase \in BOOLEAN, cancel \in BOOLEAN,
        entered \in PassphraseArgs :
       \E r \in {storage_getRootNode(session, flash.rom, curve, usePassphrase,
                                     cancel, entered)} :
         /\ op' = "getRootNode_" \o r.out
         /\ session' = r.session
         /\ power' = IF r.out = "seed_fatal" THEN "halted" ELSE power
         /\ calls' = r.calls
  /\ UNCHANGED << SUPPORT_LEGACY_VERSION, flash_sr, ret, flash, storage_uuid, storageUpdate,
                  storage_u2f_offset, nCalls, nU2F, nLoss, u2fRet, cut, pinFreshK >>

(***************************************************************************)
(* Initial state and specifications                                        *)
(***************************************************************************)
\* the flash of a device that never ran: everything erased but the meta
\* descriptor that the bootloader wrote
FactoryFlash ==
  EraseSectorLast(EraseSectorFirst(
    [meta |-> "desc", magic |-> AllOnes, uuid |-> ErasedUuid, rom |-> ErasedStorage,
     pad |-> "erased", pinarea |-> <<>>, u2farea |-> <<>>]))

RECURSIVE U2FClearRange(_, _, _)
\* the flash after the calls of storage_nextU2FCounter that take the offset
\* from lo to hi without a recycle (the range is halved to keep the
\* evaluation shallow)
U2FClearRange(fl, lo, hi) ==
  IF lo >= hi THEN fl
  ELSE IF hi = lo + 1 THEN U2FClearBit(fl, lo)
  ELSE LET mid == (lo + hi) \div 2
       IN  CHOOSE r \in {U2FClearRange(f, mid, hi) : f \in {U2FClearRange(fl, lo, mid)}} :
             TRUE
\* the flash after n calls of storage_nextU2FCounter that did not recycle
U2FClearBits(fl, n) == U2FClearRange(fl, 0, n)

\* after the first storage_init (no magic is found and the device is wiped),
\* n calls of storage_nextU2FCounter and k calls of storage_increasePinFails
StartedFailed(n, k) ==
  /\ SUPPORT_LEGACY_VERSION \in BOOLEAN
  /\ \E uuid \in Uuids :
       /\ storage_uuid = uuid
       /\ flash = ProgramPinWord(
                    U2FClearBits(
                      [storage_wipe(FactoryFlash, uuid) EXCEPT !.meta = "desc"], n),
                    1, Shl(AllOnes, k))
  /\ storageUpdate = ZeroStorage
  /\ storage_u2f_offset = n
  /\ session = ZeroSession
  /\ power = "on"
  /\ op = "boot_wipe"
  /\ nCalls = 0
  /\ nU2F = 0
  /\ nLoss = 0
  /\ u2fRet = U32Of(n)
  /\ cut = NoCut
  /\ pinFreshK = k
  /\ flash_sr = {}
  /\ ret = NoRet
  /\ calls = << >>

\* after the first storage_init and n calls of storage_nextU2FCounter
Started(n) == StartedFailed(n, 0)

Init == Started(0)
\* a device whose U2F area is fresh, or has one bit left
InitRecycle == \E n \in {0, U2fAreaBits - 1} : Started(n)

(***************************************************************************)
(* Records of earlier firmware versions                                    *)
(***************************************************************************)
\* the versions of the record that storage_from_flash tells apart: 0 (the
\* zero-filled record of a wipe), the legacy versions 1..9, a version between
\* them and STORAGE_VERSION, STORAGE_VERSION, and a later one
RecordVersions == (0..10) \cup {65537, 65538}
LegacyVersions == 1..9
\* the legacy PIN failure counts of a version <= 5 record
LegacyPinCounts == {<<0, 0>>, <<0, 1>>, <<0, 31>>, <<0, 32>>, <<1, 0>>}
\* what a device holds: nothing, a mnemonic, or an imported node
Secrets == {"none", "mnemonic", "node"}
LegacyNode == <<"node">>
LegacyMnemonic == <<"a", "b">>
\* the logical content of a device of an earlier firmware
LegacyContent(secret, c) ==
  [ ZeroStorage EXCEPT
      !.has_node = secret = "node",
      !.node = IF secret = "node" THEN LegacyNode ELSE @,
      !.has_mnemonic = secret = "mnemonic",
      !.mnemonic = IF secret = "mnemonic" THEN LegacyMnemonic ELSE @,
      !.has_passphrase_protection = TRUE, !.passphrase_protection = TRUE,
      !.has_pin_failed_attempts = c # U32Of(0), !.pin_failed_attempts = c,
      !.has_pin = TRUE, !.pin = <<"1", "2">>,
      !.has_language = TRUE, !.language = LangEnglish,
      !.has_label = TRUE, !.label = <<"L">>,
      !.has_imported = TRUE, !.imported = secret = "node",
      !.has_homescreen = TRUE,
      !.homescreen = [size |-> U32Of(HOMESCREEN_SIZE), bytes |-> <<"img">>],
      !.has_u2f_counter = TRUE, !.u2f_counter = U32Of(7),
      !.has_needs_backup = TRUE, !.needs_backup = TRUE,
      !.has_flags = TRUE, !.flags = {0},
      !.has_u2froot = secret = "mnemonic",
      !.u2froot = IF secret = "mnemonic" THEN U2FRootOf(LegacyMnemonic) ELSE @ ]
\* number of members that a record of version v holds: none in the
\* zero-filled record of a wipe, all of them from version 10 on
HeldFields(v) ==
  IF v = 0 THEN 0 ELSE IF v <= 9 THEN OldStorageFields(U32Of(v)) ELSE NFields
\* a well-formed record of version v: the members that version v had hold the
\* content (the PIN failure count only up to version 5), the flash behind them
\* is as tail, zero-filled or erased
LegacyRecord(v, secret, c, tail) ==
  [f \in Fields |->
     IF f = "version" THEN U32Of(v)
     ELSE IF FieldIndex(f) > HeldFields(v) THEN tail[f]
     ELSE IF f \in {"has_pin_failed_attempts", "pin_failed_attempts"} /\ v > 5
     THEN ZeroStorage[f]
     ELSE LegacyContent(secret, c)[f]]

\* a device that is powered off with a record of some version in its flash,
\* under a valid, an erased or a cleared marker
InitLegacy ==
  /\ SUPPORT_LEGACY_VERSION \in BOOLEAN
  /\ \E v \in RecordVersions, secret \in Secrets, c \in LegacyPinCounts,
        tail \in {ZeroStorage, ErasedStorage}, magic \in {storage_magic, AllOnes, Zero},
        pinword \in {AllOnes, Shl(AllOnes, 1)}, n \in {0, 3} :
       /\ v = 0 => tail = ZeroStorage
       /\ flash = U2FClearBits(
                 [EraseSectorLast(FactoryFlash) EXCEPT
                    !.meta = "desc", !.magic = magic, !.uuid = "uuid1",
                    !.rom = LegacyRecord(v, secret, IF v <= 5 THEN c ELSE U32Of(0), tail),
                    !.pad = "zero", !.pinarea[1] = pinword], n)
  /\ storage_uuid = ZeroUuid
  /\ storageUpdate = ZeroStorage
  /\ storage_u2f_offset = 0
  /\ session = ZeroSession
  /\ power = "off"
  /\ op = "powerloss"
  /\ nCalls = 0
  /\ nU2F = 0
  /\ nLoss = 0
  /\ u2fRet = U32Of(0)
  /\ cut = [NoCut EXCEPT !.in = "idle"]
  /\ pinFreshK = -1
  /\ flash_sr = {}
  /\ ret = NoRet
  /\ calls = << >>

\* staging, commit and wipe
NextFields ==
  \/ SetLabel \/ SetLanguage \/ SetPin \/ SetPassphraseProtection
  \/ SetHomescreen \/ SetImported \/ SetNeedsBackup \/ SetU2FCounter
  \/ Update \/ Wipe
SpecFields == Init /\ [][NextFields]_vars

\* flags
NextFlags == ApplyFlags \/ SetLabel \/ Update \/ Wipe
SpecFlags == Init /\ [][NextFlags]_vars

\* commit and power loss
NextCut == SetLabel \/ SetMnemonic \/ Update \/ UpdateCut \/ PowerOff \/ Boot
SpecCut == Init /\ [][NextCut]_vars

\* PIN failure counter
NextPin == IncreasePinFails \/ ResetPinFails \/ Wipe \/ PowerOff \/ Boot
SpecPin == Init /\ [][NextPin]_vars

\* storage_increasePinFails while the current word records few failures
IncreasePinFailsFew ==
  /\ Cardinality(storage_getPinWait(flash, storage_getPinFailsOffset(flash)))
       < MaxPinFails
  /\ IncreasePinFails

\* U2F counter, with the recycles that storage_resetPinFails triggers
NextU2F == NextU2FCounter \/ ResetPinFails \/ IncreasePinFailsFew
SpecU2F == Init /\ [][NextU2F]_vars

\* sector recycle and power loss
NextRecycle ==
  \/ NextU2FCounter \/ NextU2FCounterCut
  \/ ResetPinFails \/ ResetPinFailsCut
  \/ IncreasePinFailsFew
  \/ Boot
SpecRecycle == InitRecycle /\ [][NextRecycle]_vars

\* session cache
NextSession ==
  \/ SetMnemonic \/ SetPin \/ SetPassphraseProtection \/ SetImported \/ Update
  \/ GetSeed \/ CachePassphrase \/ CachePin \/ ClearSession
SpecSession == Init /\ [][NextSession]_vars

\* everything that a wipe undoes
NextWipe ==
  \/ Wipe \/ SetMnemonic \/ Update
  \/ NextU2FCounter \/ IncreasePinFailsFew
  \/ GetSeed \/ CachePassphrase \/ CachePin
SpecWipe == Init /\ [][NextWipe]_vars

\* a running device whose record holds a pin and a mnemonic, as storage_setPin,
\* storage_setMnemonic and storage_update leave them
InitCompare ==
  /\ SUPPORT_LEGACY_VERSION \in BOOLEAN
  /\ \E uuid \in Uuids, pin \in StoredPins, mnemonic \in StoredMnemonics :
       /\ storage_uuid = uuid
       /\ \E image \in {CommitImage(
                          storage_setMnemonic(storage_setPin(ZeroStorage, pin), mnemonic),
                          ZeroStorage, TRUE)} :
            flash = CommitPrefix(
                      [storage_wipe(FactoryFlash, uuid) EXCEPT !.meta = "desc"],
                      uuid, image, CommitSteps)
  /\ storageUpdate = ZeroStorage
  /\ storage_u2f_offset = 0
  /\ session = ZeroSession
  /\ power = "on"
  /\ op = "update"
  /\ nCalls = 0
  /\ nU2F = 0
  /\ nLoss = 0
  /\ u2fRet = U32Of(0)
  /\ cut = NoCut
  /\ pinFreshK = 0
  /\ flash_sr = {}
  /\ ret = NoRet
  /\ calls = << >>
\* comparisons of candidates with the stored pin and mnemonic
NextCompare == ContainsPin \/ ContainsMnemonic
SpecCompare == InitCompare /\ [][NextCompare]_vars

\* setters, storage_loadDevice and commit
NextLoad ==
  \/ LoadDevice \/ SetLanguage \/ SetLabel \/ SetPin \/ SetHomescreen \/ Update
SpecLoad == Init /\ [][NextLoad]_vars

\* the U2F area filled by storage_nextU2FCounter alone
NextFill == NextU2FCounterFill \/ IncreasePinFailsFew \/ SetLabel
SpecFill == Init /\ [][NextFill]_vars

\* the session state token
NextState == GetState \/ CachePassphrase \/ ClearSession \/ Wipe
SpecState == Init /\ [][NextState]_vars

\* boot on the record of any firmware version
NextMigrate == Boot \/ PowerOff \/ IncreasePinFailsFew
SpecMigrate == InitLegacy /\ [][NextMigrate]_vars

\* every operation that programs or erases the flash, with the status its
\* svc_flash_lock returns, on a running device and on a boot from a legacy record
InitFlashError ==
  \/ Init
  \/ /\ InitLegacy
     /\ flash.rom.has_mnemonic
     /\ flash.pinarea[1] = AllOnes
     /\ flash.u2farea[1] = AllOnes
NextFlashError ==
  \/ UpdateFlashError \/ WipeFlashError \/ ClearPinAreaFlashError
  \/ BootFlashError \/ IncreasePinFailsFlashError \/ ResetPinFailsFlashError
  \/ NextU2FCounterFlashError
  \/ ClearPinArea \/ IncreasePinFailsFew \/ ResetPinFails \/ NextU2FCounter
  \/ Boot \/ PowerOff
SpecFlashError == InitFlashError /\ [][NextFlashError]_vars

\* every operation that unlocks the flash, on a running device whose U2F area
\* is fresh or has one bit left and on a boot from a legacy record
InitBracket ==
  \/ InitRecycle
  \/ /\ InitLegacy
     /\ flash.rom.has_mnemonic
     /\ flash.pinarea[1] = AllOnes
     /\ flash.u2farea[1] = AllOnes
NextBracket ==
  \/ Update \/ Wipe \/ ClearPinArea
  \/ IncreasePinFailsFew \/ ResetPinFails \/ NextU2FCounter
  \/ Boot \/ PowerOff
SpecBracket == InitBracket /\ [][NextBracket]_vars

\* the PIN failure area under every operation that writes to its sector, on a
\* running device and on a boot from a legacy record
NextPinWord ==
  \/ IncreasePinFails \/ ResetPinFails \/ NextU2FCounter
  \/ Wipe \/ Boot \/ PowerOff
SpecPinWord == InitBracket /\ [][NextPinWord]_vars

\* the operations that run a PBKDF2 loop, on records with a node or a mnemonic
NextTiny ==
  \/ LoadDevice \/ SetPassphraseProtection \/ Update
  \/ CachePassphrase \/ GetSeed \/ GetRootNode
SpecTiny == Init /\ [][NextTiny]_vars

\* the PIN failure area of a running device under failed and good PIN entries
\* and U2F increments, with the power lost between operations and inside a
\* sector recycle; the failed entries are those on a word that records few
\* failures or is two failures from saturation, and the device starts with a
\* fresh word or with such a word
IncreasePinFailsEnds ==
  /\ LET n == Cardinality(storage_getPinWait(flash, storage_getPinFailsOffset(flash)))
     IN  n < MaxPinFails \/ n >= WORD_BITS - 2
  /\ IncreasePinFails
InitPinArea ==
  \E n \in {0, U2fAreaBits - 1}, k \in {0, WORD_BITS - 2} : StartedFailed(n, k)
NextPinArea ==
  \/ IncreasePinFailsEnds \/ ResetPinFails \/ ResetPinFailsCut
  \/ NextU2FCounter \/ NextU2FCounterCut
  \/ Boot \/ PowerOff
SpecPinArea == InitPinArea /\ [][NextPinArea]_vars

\* U2F increments and PIN entries while mutations are staged, on a device
\* whose U2F area is fresh or has one bit left
NextStaged ==
  \/ SetLabel \/ SetPin \/ Update
  \/ NextU2FCounter \/ ResetPinFails \/ IncreasePinFailsFew
SpecStaged == InitRecycle /\ [][NextStaged]_vars

Next ==
  \/ NextFields \/ NextFlags \/ NextCut \/ NextPin \/ NextRecycle
  \/ NextSession \/ NextWipe \/ NextMigrate \/ NextState
  \/ NextFill \/ NextLoad \/ NextCompare \/ NextFlashError \/ NextBracket
  \/ NextPinWord \/ NextTiny \/ NextPinArea \/ NextStaged
Spec == Init /\ [][Next]_vars

(***************************************************************************)
(* Properties                                                              *)
(***************************************************************************)
\* a boot step: storage_init runs on the flash that the power loss left
BootStep == power = "off" /\ power' = "on"
\* the PIN failure word that the scan finds
CurrentPinWord(fl) == PinWordAt(fl, storage_getPinFailsOffset(fl))

\* C1: when power is lost inside the commit of storage_update, the record
\* that the next boot accepts as valid is the record before the commit or the
\* record the commit was writing; any other flash content is wiped, so a torn
\* record (magic present, record image partly written) is never accepted
C1_CommitAtomic ==
  [][(BootStep /\ cut.in = "commit" /\ op' = "boot")
       => flash.rom \in {cut.old, cut.new}]_vars

\* C2: every value that storage_nextU2FCounter returns is strictly greater
\* than the value its previous call returned, whatever increments and sector
\* recycles lie between the two calls
C2_U2FStrictlyIncreasing ==
  [][(nU2F' = nU2F + 1 /\ nU2F > 0) => U32Lt(u2fRet, u2fRet')]_vars

\* C3: without a wipe, every bit that storage_getFlags reports stays reported
\* after every later storage_applyFlags and commit
C3_FlagsMonotonic ==
  [][(op' \notin {"wipe", "wipe_again"})
       => storage_getFlags(flash.rom) \subseteq storage_getFlags(flash'.rom)]_vars

\* C4: after storage_update each field reads as the staged value when the
\* setters staged it and as the rom value before the commit otherwise; a
\* staged empty label, empty pin or size-0 homescreen reads as absent
C4_MergeReadsBack ==
  [][(op' = "update") =>
       LET u == storageUpdate
           r == flash.rom
           n == flash'.rom
       IN  /\ storage_getLabel(n) =
                IF u.has_label
                THEN (IF u.label = <<>> THEN Absent ELSE <<TRUE, u.label>>)
                ELSE storage_getLabel(r)
           /\ storage_getLanguage(n) =
                IF u.has_language THEN <<TRUE, u.language>> ELSE storage_getLanguage(r)
           /\ storage_hasPin(n) =
                IF u.has_pin THEN u.pin # <<>> ELSE storage_hasPin(r)
           /\ storage_hasPin(n) => n.pin = IF u.has_pin THEN u.pin ELSE r.pin
           /\ storage_hasPassphraseProtection(n) =
                IF u.has_passphrase_protection THEN u.passphrase_protection
                ELSE storage_hasPassphraseProtection(r)
           /\ storage_getHomescreen(n) =
                IF u.has_homescreen
                THEN (IF u.homescreen.size = U32Of(HOMESCREEN_SIZE)
                      THEN <<TRUE, u.homescreen.bytes>> ELSE Absent)
                ELSE storage_getHomescreen(r)
           /\ storage_isImported(n) =
                IF u.has_imported THEN u.imported ELSE storage_isImported(r)
           /\ storage_needsBackup(storageUpdate', n) =
                IF u.has_needs_backup THEN u.needs_backup
                ELSE storage_needsBackup(ZeroStorage, r)
           /\ U2FCounterValue(n, storage_u2f_offset') =
                IF u.has_u2f_counter
                THEN U32Add(u.u2f_counter, U32Of(storage_u2f_offset))
                ELSE U2FCounterValue(r, storage_u2f_offset)
  ]_vars
\* a commit has merged a staged pin into a rom record that carries a label
C4_Witness ==
  /\ op = "update"
  /\ storage_getLabel(flash.rom) = <<TRUE, <<"L">>>>
  /\ storage_hasPin(flash.rom)

\* 2^k as a uint32_t, for k < 32
Pow2U32(k) == IF k < 16 THEN <<0, Pow2(k)>> ELSE <<Pow2(k - 16), 0>>
\* C5: after k <= 31 calls of storage_increasePinFails on a freshly erased PIN
\* area storage_getPinWait returns 2^k - 1; after storage_resetPinFails on a
\* word that is not the last of the area the current word is the next word and
\* storage_getPinWait returns 0
C5_PinWait ==
  /\ [](pinFreshK \in 0..31 =>
          /\ storage_getPinFailsOffset(flash) = 1
          /\ WordToU32(storage_getPinWait(flash, storage_getPinFailsOffset(flash)))
               = U32Sub(Pow2U32(pinFreshK), U32Of(1)))
  /\ [][(op' = "resetPinFails" /\ ~PinAreaExhausted(storage_getPinFailsOffset(flash)))
          => /\ storage_getPinFailsOffset(flash') = storage_getPinFailsOffset(flash) + 1
             /\ storage_getPinWait(flash', storage_getPinFailsOffset(flash')) = Zero]_vars
\* the counter word saturates: 31 failures recorded on a fresh area
C5_Witness ==
  /\ pinFreshK = 31
  /\ storage_getPinWait(flash, storage_getPinFailsOffset(flash)) = 0..30

\* C6: when power is lost inside storage_area_recycle, the next boot wipes the
\* device or accepts the record with the PIN failure word equal to the
\* new_pinfails that the recycle was given
C6_RecycleKeepsPinFails ==
  [][(BootStep /\ cut.in = "recycle")
       => (op' = "boot_wipe" \/ CurrentPinWord(flash') = cut.pinfails)]_vars
\* a boot has accepted the record after a power loss inside a recycle that
\* had PIN failures to preserve
C6_Witness ==
  /\ op = "boot"
  /\ cut.in = "recycle"
  /\ CurrentPinWord(flash) # AllOnes

\* C7: the effective U2F counter rom.u2f_counter + storage_u2f_offset never
\* decreases from one state to the next
C7_U2FCounterNeverDecreases ==
  [][U32Le(U32Add(flash.rom.u2f_counter, U32Of(storage_u2f_offset)),
           U32Add(flash'.rom.u2f_counter, U32Of(storage_u2f_offset')))]_vars

\* C8: after storage_setPin or storage_setPassphraseProtection the session
\* seed cache is invalid and the cached seed is zeroized
C8_SeedCacheInvalidated ==
  op \in {"setPin", "setPassphraseProtection"}
    => (~session.SeedCached /\ session.Seed = ZeroSeed)

\* C9 as stated: after every completed commit, of storage_update and of
\* storage_wipe alike, the version of the rom record is STORAGE_VERSION
C9_VersionAfterEveryCommit ==
  op \in {"update", "wipe", "wipe_again"} => flash.rom.version = STORAGE_VERSION
\* C9 amended: after the commit of storage_update the version of the rom
\* record is STORAGE_VERSION; after the empty-record commit of storage_wipe
\* the record is zero-filled and its version reads 0
C9_VersionAfterCommit ==
  /\ op = "update" => flash.rom.version = STORAGE_VERSION
  /\ op \in {"wipe", "wipe_again"} => flash.rom.version = U32Of(0)
\* storage_update has committed over the zero-filled record of a wipe
C9_Witness ==
  /\ op = "update"
  /\ nCalls > 0
  /\ flash.rom.version = STORAGE_VERSION

\* what storage_wipe leaves: valid magic, empty record, erased PIN / U2F
\* sector, offset 0, cleared session cache, cleared staged update
Wiped ==
  /\ flash.magic = storage_magic
  /\ flash.uuid = storage_uuid
  /\ flash.rom = ZeroStorage
  /\ \A i \in 1..PinAreaWords : flash.pinarea[i] = AllOnes
  /\ \A i \in 1..Len(flash.u2farea) : flash.u2farea[i] = AllOnes
  /\ storage_u2f_offset = 0
  /\ ~session.SeedCached /\ session.Seed = ZeroSeed
  /\ ~session.PassphraseCached /\ session.Passphrase = <<>>
  /\ ~session.PinCached
  /\ storageUpdate = ZeroStorage
\* C10: a storage_wipe leaves the wiped state from any state, and a second
\* storage_wipe right after it changes nothing but the uuid
C10_WipeIdempotent ==
  /\ [](op \in {"wipe", "wipe_again"} => Wiped)
  /\ [][(op' = "wipe_again")
          => /\ flash' = [flash EXCEPT !.uuid = storage_uuid']
             /\ storageUpdate' = storageUpdate
             /\ storage_u2f_offset' = storage_u2f_offset
             /\ session' = session]_vars
\* a second wipe in a row has drawn another uuid
C10_Witness ==
  /\ op = "wipe_again"
  /\ storage_uuid = "uuid2"
  /\ Wiped

\* C11: when the marker at boot is not storage_magic, or the stored version is
\* greater than STORAGE_VERSION, storage_init wipes: in both cases the device
\* ends with a valid marker, a freshly generated uuid, an empty record (no
\* node, no mnemonic, no PIN) and an erased PIN / U2F sector
C11_BadMagicOrDowngradeWipes ==
  [][(BootStep /\ (flash.magic # storage_magic
                     \/ U32Lt(STORAGE_VERSION, flash.rom.version)))
       => /\ op' = "boot_wipe"
          /\ Wiped'
          /\ storage_uuid' \in Uuids
          /\ ~flash'.rom.has_node /\ ~flash'.rom.has_mnemonic
          /\ ~storage_hasPin(flash'.rom)]_vars
\* a boot has found a valid marker over a record of a later version and wiped
C11_Witness ==
  /\ op = "boot_wipe"
  /\ ret = [fn |-> "storage_from_flash", ok |-> FALSE, why |-> "downgrade"]
  /\ Wiped

\* a boot step of a build with SUPPORT_LEGACY_VERSION on a well-formed record
\* of a legacy version under a valid marker
LegacyBootStep ==
  /\ BootStep
  /\ SUPPORT_LEGACY_VERSION
  /\ flash.magic = storage_magic
  /\ flash.rom.version \in {U32Of(v) : v \in LegacyVersions}
\* the members that the record of a version held, but for the version itself,
\* the legacy PIN failure count (C13) and the U2F root
KeptFields(version) ==
  {f \in Fields : FieldIndex(f) <= OldStorageFields(version)}
    \ {"version", "has_pin_failed_attempts", "pin_failed_attempts",
       "has_u2froot", "u2froot"}
\* the presence flags of the members that were introduced after a version
NewPresenceFlags(version) ==
  {f \in Fields : FieldIndex(f) > OldStorageFields(version)}
    \cap {"has_homescreen", "has_u2f_counter", "has_needs_backup", "has_flags"}
\* the migration but for the U2F root: the record is accepted with the current
\* version, the old members keep their values, the new ones are absent
MigratedRecord ==
  /\ op' = "boot"
  /\ flash'.rom.version = STORAGE_VERSION
  /\ \A f \in KeptFields(flash.rom.version) : flash'.rom[f] = flash.rom[f]
  /\ \A f \in NewPresenceFlags(flash.rom.version) : ~flash'.rom[f]

\* C12 as stated: booting on a well-formed record of a legacy version 1..9
\* yields a record of version STORAGE_VERSION in which every member of the old
\* version keeps its value, every later member is absent, and the U2F root is
\* present
C12_MigrationU2FRootPresent ==
  [][LegacyBootStep => (MigratedRecord /\ flash'.rom.has_u2froot)]_vars
\* C12 amended: the same, but the U2F root is present exactly when the record
\* holds a mnemonic, and then it is the root derived from that mnemonic
C12_Migration ==
  [][LegacyBootStep =>
       /\ MigratedRecord
       /\ flash'.rom.has_u2froot = flash.rom.has_mnemonic
       /\ flash.rom.has_mnemonic =>
            flash'.rom.u2froot = U2FRootOf(flash.rom.mnemonic)]_vars
\* the first boot has migrated a record of a version before 8 (label kept, no
\* flags member yet) that held a mnemonic
C12_Witness ==
  /\ op = "boot"
  /\ nLoss = 0
  /\ SUPPORT_LEGACY_VERSION
  /\ flash.rom.version = STORAGE_VERSION
  /\ storage_getLabel(flash.rom) = <<TRUE, <<"L">>>>
  /\ ~flash.rom.has_flags
  /\ flash.rom.has_u2froot

\* the legacy PIN failure count of a record, and min(count, 31)
LegacyPinCount(rom) ==
  IF rom.has_pin_failed_attempts THEN rom.pin_failed_attempts ELSE U32Of(0)
LegacyPinCountCapped(rom) ==
  IF U32Lt(U32Of(31), LegacyPinCount(rom)) THEN 31 ELSE LegacyPinCount(rom)[2]
C14_GetStateKeyedWithArgument ==
  [][(op' = "getState") =>
       LET out == ret'.out
           key == IF ret'.passphrase.null THEN session.Passphrase
                  ELSE ret'.passphrase.str
       IN  /\ out.ok = ~(ret'.passphrase.null /\ ~session.PassphraseCached)
           /\ out.ok =>
                /\ out.salt = IF ret'.salt.null THEN ret'.random ELSE ret'.salt.str
                /\ out.hmac = HmacSha256(key, out.salt, storage_uuid)]_vars

\* a step of storage_nextU2FCounter that recycled the sector: the U2F area is
\* erased and the offset is back at 0
U2FRecycleStep ==
  /\ op' = "nextU2FCounter"
  /\ nU2F' = nU2F + 1
  /\ storage_u2f_offset' = 0
  /\ \A i \in 1..Len(flash'.u2farea) : flash'.u2farea[i] = AllOnes
\* a step of storage_nextU2FCounter that is its n-th call
U2FCallStep(n) == op' = "nextU2FCounter" /\ nU2F = n - 1 /\ nU2F' = n

\* C15 as stated: on a wiped device with a U2F area of B bits the first B
\* calls of storage_nextU2FCounter do not recycle; the call B + 1 recycles,
\* returns B + 1 and leaves rom.u2f_counter = B
C15_RecycleAtCallBPlus1 ==
  [][/\ (op' = "nextU2FCounter" /\ nU2F' = nU2F + 1 /\ nU2F' <= U2fAreaBits)
          => ~U2FRecycleStep
     /\ U2FCallStep(U2fAreaBits + 1)
          => /\ U2FRecycleStep
             /\ u2fRet' = U32Of(U2fAreaBits + 1)
             /\ flash'.rom.u2f_counter = U32Of(U2fAreaBits)]_vars
\* C15 amended: the first B - 1 calls do not recycle and call n returns n; the
\* call B, which clears the last bit of the area, recycles, returns B and
\* leaves rom.u2f_counter = B with the offset 0; the call B + 1 does not
\* recycle, returns B + 1 and leaves rom.u2f_counter = B
C15_RecycleAtCallB ==
  [][/\ (op' = "nextU2FCounter" /\ nU2F' = nU2F + 1 /\ nU2F' < U2fAreaBits)
          => (~U2FRecycleStep /\ u2fRet' = U32Of(nU2F'))
     /\ U2FCallStep(U2fAreaBits)
          => /\ U2FRecycleStep
             /\ u2fRet' = U32Of(U2fAreaBits)
             /\ flash'.rom.u2f_counter = U32Of(U2fAreaBits)
     /\ U2FCallStep(U2fAreaBits + 1)
          => /\ ~U2FRecycleStep
             /\ storage_u2f_offset' = 1
             /\ u2fRet' = U32Of(U2fAreaBits + 1)
             /\ flash'.rom.u2f_counter = U32Of(U2fAreaBits)]_vars
\* the call after the recycle has returned B + 1
C15_Witness ==
  /\ op = "nextU2FCounter"
  /\ nU2F = U2fAreaBits + 1
  /\ u2fRet = U32Of(U2fAreaBits + 1)
  /\ flash.rom.u2f_counter = U32Of(U2fAreaBits)
  /\ storage_u2f_offset = 1

\* C16: when the PIN failure counter is at its maximum (the current word
\* shifted left by one is 0), storage_increasePinFails returns success and
\* programs nothing: the flash, and with it storage_getPinWait, is unchanged
C16_PinFailsSaturate ==
  [][(op' \in {"increasePinFails", "increasePinFails_false"}
        /\ Shl(CurrentPinWord(flash), 1) = Zero)
       => /\ op' = "increasePinFails"
          /\ flash' = flash
          /\ storage_getPinWait(flash', storage_getPinFailsOffset(flash'))
               = storage_getPinWait(flash, storage_getPinFailsOffset(flash))]_vars
\* the 32nd failure in a row on a fresh PIN area: the word stays 0x80000000
C16_Witness ==
  /\ op = "increasePinFails"
  /\ pinFreshK = 32
  /\ CurrentPinWord(flash) = {31}
  /\ storage_getPinFailsOffset(flash) = 1

\* C17: in every state reached from a wiped device through the setters,
\* storage_loadDevice and storage_update, a present field of the rom record
\* has its shape: a language is EN, FR or DE, a homescreen has size 1024, a
\* label and a pin are not empty
C17_PresentFieldsWellShaped ==
  LET rom == flash.rom IN
  /\ rom.has_language => rom.language \in {LangEN, LangFR, LangDE}
  /\ rom.has_homescreen => rom.homescreen.size = U32Of(HOMESCREEN_SIZE)
  /\ rom.has_label => rom.label # <<>>
  /\ rom.has_pin => rom.pin # <<>>

\* C18: storage_containsMnemonic and storage_containsPin compare
\* len(candidate) + 1 byte positions whatever the stored secret is, and return
\* true exactly when the stored string equals the candidate up to and
\* including the terminating NUL
C18_ConstantTimeCompare ==
  /\ ret.fn = "containsPin" =>
       /\ ret.out.steps = Len(ret.candidate) + 1
       /\ ret.out.result = (flash.rom.pin = ret.candidate)
  /\ ret.fn = "containsMnemonic" =>
       /\ ret.out.steps = Len(ret.candidate) + 1
       /\ ret.out.result = (flash.rom.mnemonic = ret.candidate)
\* a candidate that is a proper prefix of the stored pin has been rejected
\* after len + 1 steps
C18_Witness ==
  /\ ret.fn = "containsPin"
  /\ ret.candidate = <<"1", "2">>
  /\ flash.rom.pin = <<"1", "2", "3">>
  /\ ret.out = [result |-> FALSE, steps |-> 3]

\* C20: every sector recycle keeps the effective U2F counter: the new
\* rom.u2f_counter is the old rom.u2f_counter plus the offset that
\* storage_area_recycle found, and the offset becomes 0
C20_RecyclePreservesU2FCounter ==
  [][/\ (op' = "resetPinFails" /\ PinAreaExhausted(storage_getPinFailsOffset(flash)))
          => /\ storage_u2f_offset' = 0
             /\ flash'.rom.u2f_counter
                  = U32Add(flash.rom.u2f_counter, U32Of(storage_u2f_offset))
     /\ U2FRecycleStep
          => flash'.rom.u2f_counter
               = U32Add(flash.rom.u2f_counter, U32Of(storage_u2f_offset + 1))]_vars

\* C19: whenever the svc_flash_lock that closes the program/erase sequence of
\* a mutating operation (commit, wipe, migration at boot, clear PIN area,
\* increase or reset PIN failures, next U2F counter) returns PGAERR, PGPERR,
\* PGSERR or WRPERR, the operation ends in storage_show_error and shutdown:
\* the device is halted and the operation has not returned to its caller.
C19_FlashErrorsAreFatal ==
  (flash_sr \cap {"PGAERR", "PGPERR", "PGSERR", "WRPERR"}) # {}
    => /\ power = "halted"
       /\ op \in {"update_fatal", "wipe_fatal", "wipe_again_fatal",
                  "clearPinArea_fatal", "boot_fatal", "boot_wipe_fatal",
                  "increasePinFails_fatal", "increasePinFails_false_fatal",
                  "resetPinFails_fatal", "nextU2FCounter_fatal"}
\* a migration at boot that halts on a write protection error
C19_Witness ==
  /\ flash_sr = {"WRPERR"}
  /\ power = "halted"
  /\ op = "boot_fatal"

\* the lock state of the flash before call number i of a sequence that starts
\* with the flash locked
UnlockedAt(calls_, i) ==
  LET marks == {j \in 1..(i - 1) : calls_[j] \in {"svc_flash_unlock", "svc_flash_lock"}}
  IN  /\ marks # {}
      /\ calls_[CHOOSE j \in marks : \A h \in marks : h <= j] = "svc_flash_unlock"

\* C21: every flash erase and every word program of an operation is issued
\* while the flash is unlocked, and an operation that has returned to its
\* caller has locked the flash again: a device that runs and is not in an
\* operation has its flash locked.
C21_FlashUnlockedOnlyInsideOperations ==
  /\ \A i \in 1..Len(calls) :
       calls[i] \in {"svc_flash_erase_sector", "flash_write32"} => UnlockedAt(calls, i)
  /\ power = "on" => ~UnlockedAt(calls, Len(calls) + 1)
\* a storage_resetPinFails that has recycled the sector and returned
C21_Witness ==
  /\ op = "resetPinFails"
  /\ power = "on"
  /\ Len(calls) > 3
  /\ \E i \in 1..Len(calls) : calls[i] = "svc_flash_erase_sector"

\* the members of the record that hold the secret and what is derived from it
SecretFields == {"has_node", "node", "has_mnemonic", "mnemonic", "has_u2froot", "u2froot"}

\* C22: a commit whose staged update sets neither has_node nor has_mnemonic
\* leaves node, mnemonic and u2froot of the rom, with their presence bits, as
\* they were; a commit whose staged update sets has_mnemonic writes
\* has_u2froot true with the u2froot computed from the staged mnemonic, and
\* the node of the staged update in place of the old node.
C22_SecretCarriedAsUnit ==
  [][op' = "update" =>
       /\ (~storageUpdate.has_node /\ ~storageUpdate.has_mnemonic)
            => \A f \in SecretFields : flash'.rom[f] = flash.rom[f]
       /\ storageUpdate.has_mnemonic
            => /\ flash'.rom.has_u2froot
               /\ flash'.rom.u2froot = U2FRootOf(storageUpdate.mnemonic)
               /\ flash'.rom.has_node = storageUpdate.has_node
               /\ flash'.rom.node = storageUpdate.node]_vars

\* the words of the form 1...10...0: 0xffffffff << k
OnesThenZeros == {Shl(AllOnes, k) : k \in 0..(WORD_BITS - 1)}

\* C23: in every reachable state, across storage_increasePinFails,
\* storage_resetPinFails, the sector recycle, the migration at boot and the
\* wipe, the current word of the PIN failure area (its first word that is not
\* zero) is a run of one bits in the high positions over a run of zero bits.
C23_PinWordOnesThenZeros ==
  CurrentPinWord(flash) \in OnesThenZeros
\* failures counted in the second word of the area, behind a reset
C23_Witness ==
  /\ flash.pinarea[1] = Zero
  /\ CurrentPinWord(flash) = Shl(AllOnes, 2)
  /\ op = "increasePinFails"

\* the USB tiny mode before call number i of an operation that is entered
\* in the normal mode: whether the last usbTiny call before it is usbTiny(1)
TinyAt(calls_, i) ==
  LET marks == {j \in 1..(i - 1) : calls_[j] \in {"usbTiny(1)", "usbTiny(old)"}}
  IN  /\ marks # {}
      /\ calls_[CHOOSE j \in marks : \A h \in marks : h <= j] = "usbTiny(1)"

\* C24: every PBKDF2 loop (the seed derivation of storage_getSeed, the
\* computation of the U2F root in a commit, the decryption of the node in
\* storage_getRootNode) runs with the USB tiny mode set to 1, and the
\* operation restores the mode it found before it returns.
C24_Pbkdf2InTinyMode ==
  /\ \A i \in 1..Len(calls) : calls[i] = "pbkdf2" => TinyAt(calls, i)
  /\ ~TinyAt(calls, Len(calls) + 1)


\* C25: every program of a word that the operation has not erased itself only
\* clears bits: the value that storage_nextU2FCounter programs into the U2F
\* area and the value that storage_increasePinFails programs into the PIN
\* area have no one-bit where the word they are programmed over has a
\* zero-bit (v AND NOT old = 0)
C25_ProgramsOnlyClearBits ==
  [][/\ op' = "nextU2FCounter" =>
          U2FNewval(storage_u2f_offset)
            \subseteq flash.u2farea[U2FWordIndex(storage_u2f_offset)]
     /\ op' \in {"increasePinFails", "increasePinFails_false"} =>
          LET idx == storage_getPinFailsOffset(flash)
          IN  IncreasedPinWord(PinWordAt(flash, idx)) \subseteq PinWordAt(flash, idx)
    ]_vars


\* C26: in every state, the states that a power loss leaves included, some
\* word of the PIN area is not zero, so that the scan of
\* storage_getPinFailsOffset stops at a word inside the PIN area
C26_PinAreaHoldsNonZeroWord ==
  /\ \E i \in 1..PinAreaWords : flash.pinarea[i] # Zero
  /\ storage_getPinFailsOffset(flash) <= PinAreaWords
\* the power was lost inside a sector recycle, behind the erase of the sector
\* of the PIN area and before the record was written again
C26_Witness ==
  /\ power = "off"
  /\ cut.in = "recycle"
  /\ flash.magic # storage_magic
  /\ \A i \in 1..PinAreaWords : flash.pinarea[i] = AllOnes


\* C27: storage_nextU2FCounter and storage_resetPinFails leave every member of
\* the rom record other than u2f_counter (with its presence bit) as it was,
\* and leave the staged update as it was, also when they recycle the sector
\* while mutations are staged
C27_CountersLeaveRecordAndStaged ==
  [][op' \in {"nextU2FCounter", "resetPinFails"} =>
       /\ storageUpdate' = storageUpdate
       /\ \A f \in Fields \ {"has_u2f_counter", "u2f_counter"} :
            flash'.rom[f] = flash.rom[f]
    ]_vars


\* C28: whenever the seed cache is marked valid, the rom record holds a
\* mnemonic and the cached seed is the seed of that mnemonic with the cached
\* passphrase when sessionSeedUsesPassphrase is set, and with the empty
\* passphrase when it is not
C28_CachedSeedIsCurrent ==
  session.SeedCached =>
    /\ flash.rom.has_mnemonic
    /\ session.Seed = MnemonicToSeed(flash.rom.mnemonic,
                         IF session.SeedUsesPassphrase THEN session.Passphrase
                         ELSE <<>>)

=========================================================================
